---- MODULE Spec2Model ----
(***************************************************************************)
(* Scenario trigger-and-behaviour state machines of 3csim                  *)
(* (scripts/scenario_files/*.py) and the loops that drive them             *)
(* (scripts/start_car.py and the main() of each scenario file).            *)
(*                                                                         *)
(* Units.  Lengths are counted in tenths of a metre (61.50 m is 615),      *)
(* speeds in tenths of a metre per second, angles in degrees.  The code    *)
(* adds the speed of the ego vehicle to a coordinate without any factor,   *)
(* so a speed of v shifts a trigger corner by v length units.  One world   *)
(* step lasts fixed_delta_seconds = 0.05 s = 1/StepsPerSecond, so a        *)
(* vehicle of speed v covers v \div StepsPerSecond length units per step.  *)
(***************************************************************************)
EXTENDS Integers, Sequences, FiniteSets, TLC

VARIABLES
    scn,        \* the scenario object under test (its attributes)
    ego,        \* ego vehicle as read by the latest tick: [loc, speed]
    actors,     \* transforms of the owned actors a scenario itself moves
    ret,        \* value returned by the latest tick call (-1: no call yet)
    ctl,        \* commands the latest tick call sent to owned actors
    msg,        \* outcome messages the latest tick call printed
    trig_calls, \* number of times the trigger method has run
    op,         \* the latest call: "init", "tick", "callback", "destroy", "world"
    pc,         \* where the loop that runs the scenario stands
    route,      \* how the world behaves during the run
    driver,     \* "start_car", or the class whose own main() is running
    scenarios,  \* start_car: the list scenarios; main(): <<Scenario>> or <<>>
    scenario_timers,  \* the watchdog timers, one for each entry of scenarios
    index,      \* start_car: position of the for loop in scenarios (from 1)
    stalls,     \* watchdog steps spent on ticks that changed nothing
    ones,       \* for each class, how many tick calls have returned 1
    elapsed,    \* number of tick calls that took the final-countdown branch
    batches,    \* what each destroy call did: sensors stopped, batch sent
    hist,       \* for each class, what the running loop has done with it
    call,       \* the latest direct call of a helper of checks.py
    caller_points  \* the list the caller handed to the constructors

dvars == <<driver, scenarios, scenario_timers, index, stalls, ones,
           elapsed, batches, hist, call, caller_points>>

\* No helper of checks.py has been called directly.
NoCall == [fn |-> "none"]

vars == <<scn, ego, actors, ret, ctl, msg, trig_calls, op, pc, route, dvars>>

\* start_car.py and every main(): settings.fixed_delta_seconds = 0.05
StepsPerSecond == 20

----------------------------------------------------------------------------
(* checks.py *)

Min2(a, b) == IF a <= b THEN a ELSE b
Max2(a, b) == IF a >= b THEN a ELSE b

\* is_inside_bounding_box as it would be if it took the first corner for the
\* lower one and the second for the upper one, without min and max.
is_inside_ordered_corners(vehicle_location, bbox_min, bbox_max) ==
    /\ bbox_min[1] <= vehicle_location[1]
    /\ vehicle_location[1] <= bbox_max[1]
    /\ bbox_min[2] <= vehicle_location[2]
    /\ vehicle_location[2] <= bbox_max[2]

\* checks.py: is_inside_bounding_box
is_inside_bounding_box(vehicle_location, bbox_min, bbox_max) ==
    /\ Min2(bbox_min[1], bbox_max[1]) <= vehicle_location[1]
    /\ vehicle_location[1] <= Max2(bbox_min[1], bbox_max[1])
    /\ Min2(bbox_min[2], bbox_max[2]) <= vehicle_location[2]
    /\ vehicle_location[2] <= Max2(bbox_min[2], bbox_max[2])

\* checks.py: get_vehicle_speed.  The vehicle record carries the norm of its
\* velocity vector.
get_vehicle_speed(vehicle) == vehicle.speed

\* update_trigger_points as it would be if it moved the corners by the
\* distance covered in one world step instead of by the speed.
update_trigger_points_per_step(trigger_points, actor_speed, add_speed, add_to_x) ==
    LET d == (IF add_speed THEN 1 ELSE -1) * (actor_speed \div StepsPerSecond)
    IN IF add_to_x
       THEN << <<trigger_points[1][1] + d, trigger_points[1][2]>>,
               <<trigger_points[2][1] + d, trigger_points[2][2]>> >>
       ELSE << <<trigger_points[1][1], trigger_points[1][2] + d>>,
               <<trigger_points[2][1], trigger_points[2][2] + d>> >>

\* update_trigger_points as it would be if add_speed were ignored and the
\* speed always added.
update_trigger_points_unsigned(trigger_points, actor_speed, add_speed, add_to_x) ==
    IF add_to_x
    THEN << <<trigger_points[1][1] + actor_speed, trigger_points[1][2]>>,
            <<trigger_points[2][1] + actor_speed, trigger_points[2][2]>> >>
    ELSE << <<trigger_points[1][1], trigger_points[1][2] + actor_speed>>,
            <<trigger_points[2][1], trigger_points[2][2] + actor_speed>> >>

\* checks.py: update_trigger_points
update_trigger_points(trigger_points, actor_speed, add_speed, add_to_x) ==
    IF add_speed
    THEN IF add_to_x
         THEN << <<trigger_points[1][1] + actor_speed, trigger_points[1][2]>>,
                 <<trigger_points[2][1] + actor_speed, trigger_points[2][2]>> >>
         ELSE << <<trigger_points[1][1], trigger_points[1][2] + actor_speed>>,
                 <<trigger_points[2][1], trigger_points[2][2] + actor_speed>> >>
    ELSE IF add_to_x
         THEN << <<trigger_points[1][1] - actor_speed, trigger_points[1][2]>>,
                 <<trigger_points[2][1] - actor_speed, trigger_points[2][2]>> >>
         ELSE << <<trigger_points[1][1], trigger_points[1][2] - actor_speed>>,
                 <<trigger_points[2][1], trigger_points[2][2] - actor_speed>> >>

\* checks.py: update_beginning_area
update_beginning_area(array, actor_speed, add_speed, add_to_x) ==
    IF add_speed
    THEN IF add_to_x
         THEN <<array[1] + actor_speed, array[2]>>
         ELSE <<array[1], array[2] + actor_speed>>
    ELSE IF add_to_x
         THEN <<array[1] - actor_speed, array[2]>>
         ELSE <<array[1], array[2] - actor_speed>>

----------------------------------------------------------------------------
(* Scenario objects *)

\* What a tick call yields: the object afterwards, the return value, the
\* commands sent to owned actors, the outcome messages printed, whether the
\* trigger method ran, and the actor transforms after its set_transform calls.
Out(s, r, c, m, t, a) ==
    [s |-> s, ret |-> r, ctl |-> c, msg |-> m, trig |-> t, actors |-> a]

\* Attributes every scenario class sets in __init__ (absent ones keep a
\* neutral value that no method of that class reads).
NewScenario(kind, trigger_points, checkpoint, timer) ==
    [kind               |-> kind,
     triggered          |-> FALSE,
     trigger_points     |-> trigger_points,
     trigger_area       |-> trigger_points,
     checkpoint         |-> checkpoint,
     timer              |-> timer,
     collision_detected |-> FALSE,
     actor_list         |-> <<>>,
     autopilot_frames   |-> 0,
     gazelle_x          |-> 0,
     gorilla_x          |-> 0]

Abs(n) == IF n < 0 THEN -n ELSE n

\* traffic_light.set_state(carla.TrafficLightState.Green): the light of the
\* world turns green; light_sets counts the set_state calls it has received.
SetGreen(a) == [a EXCEPT !.light = "Green", !.light_sets = @ + 1]

\* The argument trigger_points=None of the constructors.
None == <<>>

PointsOr(trigger_points, default) ==
    IF trigger_points # None THEN trigger_points ELSE default

----------------------------------------------------------------------------
(* spawn_ball_boy.py: BoyFootball *)

BoyFootball_default == << <<615, 1330>>, <<620, 1360>> >>

\* actor_list once __init__ has spawned and appended the actors.
BoyFootball_actors == <<"football", "pedestrian", "cybertruck", "nissan", "truck">>

BoyFootball_init(trigger_points) ==
    [NewScenario("BoyFootball", PointsOr(trigger_points, BoyFootball_default), <<FALSE>>, 0)
        EXCEPT !.actor_list = BoyFootball_actors]

\* A trigger method that would also flip the first checkpoint.
trigger_with_checkpoint(s) ==
    [s EXCEPT !.triggered = TRUE, !.checkpoint[1] = TRUE]

BoyFootball_trigger(s) == [s EXCEPT !.triggered = TRUE]

\* A triggered branch that would report the pass without waiting for the
\* pedestrian to have turned back.
BoyFootball_tick_pass_early(s, e, o) ==
    IF o.ped[1] = 0 /\ o.ped[2] = 0
    THEN Out(s, 1, <<>>, <<"fail: pedestrian killed">>, FALSE, o.actors)
    ELSE IF o.ped[2] > 1400
         THEN Out(s, 1, <<>>, <<"pass: pedestrian crossed">>, FALSE, o.actors)
         ELSE Out(s, 0, <<>>, <<>>, FALSE, o.actors)

\* The branch of tick taken when triggered == 1.
BoyFootball_tick_triggered(s, e, o) ==
    IF o.ped[1] = 0 /\ o.ped[2] = 0
    THEN Out(s, 1, <<>>, <<"fail: pedestrian killed">>, FALSE, o.actors)
    ELSE IF s.checkpoint[1] = FALSE
         THEN IF o.ped[2] > 1360
              THEN Out(s, 0, <<"pedestrian.adjust_velocity">>, <<>>, FALSE,
                       o.actors)
              ELSE IF o.ped[2] < 1270
                   THEN Out([s EXCEPT !.checkpoint[1] = TRUE], 0,
                            <<"pedestrian.apply_control">>, <<>>, FALSE,
                            o.actors)
                   ELSE Out(s, 0, <<"pedestrian.apply_control">>, <<>>,
                            FALSE, o.actors)
         ELSE IF o.ped[2] > 1400
              THEN Out(s, 1, <<>>, <<"pass: pedestrian crossed">>, FALSE,
                       o.actors)
              ELSE Out(s, 0, <<>>, <<>>, FALSE, o.actors)

\* The branch of tick taken while not triggered.
\* An idle branch that would shift the area it already has, so that the
\* offsets of successive ticks add up.
BoyFootball_tick_idle_accumulating(s, e, o) ==
    IF is_inside_bounding_box(e.loc, s.trigger_area[1], s.trigger_area[2])
    THEN Out(BoyFootball_trigger(s), 0,
             <<"football.set_simulate_physics", "pedestrian.apply_control",
               "football.add_impulse">>, <<>>, TRUE, o.actors)
    ELSE Out([s EXCEPT !.trigger_area =
                   update_trigger_points(s.trigger_area,
                                         get_vehicle_speed(e), FALSE, TRUE)],
             0, <<>>, <<>>, FALSE, o.actors)

BoyFootball_tick_idle(s, e, o) ==
    IF is_inside_bounding_box(e.loc, s.trigger_area[1], s.trigger_area[2])
    THEN Out(BoyFootball_trigger(s), 0,
             <<"football.set_simulate_physics", "pedestrian.apply_control",
               "football.add_impulse">>, <<>>, TRUE, o.actors)
    ELSE Out([s EXCEPT !.trigger_area =
                   update_trigger_points(s.trigger_points,
                                         get_vehicle_speed(e), FALSE, TRUE)],
             0, <<>>, <<>>, FALSE, o.actors)

\* A tick that would go on translating the area after the trigger.
BoyFootball_tick_compensating(s, e, o) ==
    IF s.triggered
    THEN LET r == BoyFootball_tick_triggered(s, e, o)
         IN [r EXCEPT !.s.trigger_area =
                 update_trigger_points(s.trigger_points, get_vehicle_speed(e),
                                       FALSE, TRUE)]
    ELSE BoyFootball_tick_idle(s, e, o)

BoyFootball_tick(s, e, o) ==
    IF s.triggered THEN BoyFootball_tick_triggered(s, e, o)
                   ELSE BoyFootball_tick_idle(s, e, o)

----------------------------------------------------------------------------
(* spawn_static_car_crash_1.py: StaticCarCrash_1 *)

StaticCarCrash_1_timer == 400

StaticCarCrash_1_default == << <<2208, -865>>, <<2383, 16>> >>

StaticCarCrash_1_actors ==
    <<"police_car", "car1", "car2", "traffic_warning",
      "traffic_cone_1", "traffic_cone_2",
      "construction_cone_1", "construction_cone_2", "construction_cone_3",
      "construction_cone_4", "construction_cone_5">>

StaticCarCrash_1_init(trigger_points) ==
    [NewScenario("StaticCarCrash_1", PointsOr(trigger_points, StaticCarCrash_1_default), <<>>, StaticCarCrash_1_timer)
        EXCEPT !.actor_list = StaticCarCrash_1_actors]

\* A trigger method that would forget to set triggered.
trigger_without_latch(s) == s

StaticCarCrash_1_trigger(s) == [s EXCEPT !.triggered = TRUE]

StaticCarCrash_1_tick(s, e, o) ==
    IF s.triggered
    THEN IF is_inside_bounding_box(e.loc, s.trigger_area[1], s.trigger_area[2])
         THEN IF s.timer > 0
              THEN Out([s EXCEPT !.timer = s.timer - 1], 0, <<>>, <<>>, FALSE,
                       o.actors)
              ELSE Out(s, 1, <<>>, <<"fail: timeout">>, FALSE, o.actors)
         ELSE Out(s, 1, <<>>, <<"pass: obstacle avoided">>, FALSE, o.actors)
    ELSE IF is_inside_bounding_box(e.loc, s.trigger_area[1], s.trigger_area[2])
         THEN Out(StaticCarCrash_1_trigger(s), 0, <<>>, <<>>, TRUE, o.actors)
         ELSE Out(s, 0, <<>>, <<>>, FALSE, o.actors)

----------------------------------------------------------------------------
(* spawn_static_EMS_obstacle.py: StaticEMSObstacle *)

StaticEMSObstacle_timer == 400

StaticEMSObstacle_default == << <<-435, -450>>, <<435, 425>> >>

\* Five vehicles are appended; then, for each of them in that order, a
\* collision sensor is attached and inserted at position 0.
StaticEMSObstacle_actors ==
    <<"sensor_firetruck3", "sensor_firetruck2", "sensor_firetruck1",
      "sensor_police", "sensor_ambulance",
      "ambulance", "police", "firetruck1", "firetruck2", "firetruck3">>

StaticEMSObstacle_init(trigger_points) ==
    [NewScenario("StaticEMSObstacle", PointsOr(trigger_points, StaticEMSObstacle_default), <<>>, StaticEMSObstacle_timer)
        EXCEPT !.actor_list = StaticEMSObstacle_actors]

\* The callback of the five collision sensors: only contact with the actor
\* whose role_name is 'ego' counts.
StaticEMSObstacle_sensor_callback(s, other_role) ==
    IF other_role = "ego" THEN [s EXCEPT !.collision_detected = TRUE] ELSE s

StaticEMSObstacle_trigger(s) == [s EXCEPT !.triggered = TRUE]

StaticEMSObstacle_tick(s, e, o) ==
    IF s.triggered
    THEN IF s.collision_detected
         THEN Out(s, 1, <<>>, <<"fail: collision">>, FALSE, o.actors)
         ELSE IF is_inside_bounding_box(e.loc, s.trigger_area[1], s.trigger_area[2])
              THEN IF s.timer > 0
                   THEN Out([s EXCEPT !.timer = s.timer - 1], 0, <<>>, <<>>,
                            FALSE, o.actors)
                   ELSE Out(s, 1, <<>>, <<"fail: timeout">>, FALSE, o.actors)
              ELSE Out(s, 1, <<>>, <<"pass: obstacle avoided">>, FALSE, o.actors)
    ELSE IF is_inside_bounding_box(e.loc, s.trigger_area[1], s.trigger_area[2])
         THEN Out(StaticEMSObstacle_trigger(s), 0, <<>>, <<>>, TRUE, o.actors)
         ELSE Out(s, 0, <<>>, <<>>, FALSE, o.actors)

----------------------------------------------------------------------------
(* spawn_bus_stop_near_playground.py: BusStopNearPlayground *)

BusStopNearPlayground_timer == 200

BusStopNearPlayground_default == << <<1509, -429>>, <<1582, -1010>> >>

\* The collision sensor is inserted before the last element.
BusStopNearPlayground_actors ==
    <<"bus", "first_kid", "collision_sensor", "second_kid">>

\* A constructor that would start with the first checkpoint already passed.
init_with_checkpoint(trigger_points) ==
    [NewScenario("BusStopNearPlayground",
                 PointsOr(trigger_points, BusStopNearPlayground_default),
                 <<TRUE, FALSE, FALSE, FALSE>>, BusStopNearPlayground_timer)
        EXCEPT !.actor_list = BusStopNearPlayground_actors]

BusStopNearPlayground_init(trigger_points) ==
    [NewScenario("BusStopNearPlayground", PointsOr(trigger_points, BusStopNearPlayground_default),
                 <<FALSE, FALSE, FALSE, FALSE>>, BusStopNearPlayground_timer)
        EXCEPT !.actor_list = BusStopNearPlayground_actors]

\* A callback that would toggle the flag instead of setting it.
sensor_callback_toggling(s, other_role) ==
    [s EXCEPT !.collision_detected = ~s.collision_detected]

BusStopNearPlayground_sensor_callback(s, other_role) ==
    [s EXCEPT !.collision_detected = TRUE]

BusStopNearPlayground_trigger(s) == [s EXCEPT !.triggered = TRUE]

\* __init__ binds trigger_area to the very list trigger_points names, and the
\* idle branch assigns into element 0 of that list: both attributes show the
\* new corner.
BusStopNearPlayground_tick(s, e, o) ==
    IF s.triggered
    THEN IF s.collision_detected
         THEN Out(s, 1, <<>>, <<"fail: collision">>, FALSE, o.actors)
         ELSE IF s.checkpoint[1] = FALSE
         THEN IF o.yaw > -65
              THEN Out([s EXCEPT !.checkpoint[1] = TRUE], 0,
                       <<"bus.apply_control">>, <<>>, FALSE, o.actors)
              ELSE Out(s, 0, <<>>, <<>>, FALSE, o.actors)
         ELSE IF s.checkpoint[2] = FALSE
         THEN IF o.yaw < -84
              THEN Out([s EXCEPT !.checkpoint[2] = TRUE], 0,
                       <<"bus.apply_control">>, <<>>, FALSE, o.actors)
              ELSE Out(s, 0, <<>>, <<>>, FALSE, o.actors)
         ELSE IF s.checkpoint[3] = FALSE
         THEN IF o.veh_y < -970
              THEN Out([s EXCEPT !.checkpoint[3] = TRUE], 0,
                       <<"bus.apply_control", "bus.set_light_state",
                         "first_kid.set_transform", "second_kid.set_transform",
                         "first_kid.apply_control", "second_kid.apply_control">>,
                       <<>>, FALSE, o.actors)
              ELSE Out(s, 0, <<>>, <<>>, FALSE, o.actors)
         ELSE IF s.checkpoint[4] = FALSE
                 /\ e.loc[2] < -950 + get_vehicle_speed(e)
         THEN IF /\ is_inside_bounding_box(e.loc, s.trigger_area[1],
                                           s.trigger_area[2])
                 /\ get_vehicle_speed(e) > 5
              THEN Out(s, 0, <<"first_kid.adjust_velocity",
                               "second_kid.adjust_velocity">>, <<>>, FALSE,
                       o.actors)
              ELSE Out([s EXCEPT !.checkpoint[4] = TRUE], 0,
                       <<"first_kid.apply_control", "second_kid.apply_control">>,
                       <<>>, FALSE, o.actors)
         ELSE IF s.timer > 0
              THEN Out([s EXCEPT !.timer = s.timer - 1], 0, <<>>, <<>>, FALSE,
                       o.actors)
              ELSE Out(s, 1, <<>>, <<>>, FALSE, o.actors)
    ELSE IF is_inside_bounding_box(e.loc, s.trigger_area[1], s.trigger_area[2])
         THEN Out(BusStopNearPlayground_trigger(s), 0,
                  <<"bus.apply_control", "bus.set_light_state">>, <<>>, TRUE,
                  o.actors)
         ELSE LET moved == update_beginning_area(s.trigger_points[1],
                                                 get_vehicle_speed(e), TRUE, FALSE)
              IN Out([s EXCEPT !.trigger_area[1] = moved,
                               !.trigger_points[1] = moved],
                     0, <<>>, <<>>, FALSE, o.actors)

----------------------------------------------------------------------------
(* spawn_car_with_item_BRIEFCASE.py: CarWithItem *)

CarWithItem_frames == 200

CarWithItem_default == << <<-29, -561>>, <<100, -586>> >>

CarWithItem_actors == <<"vehicle", "item">>

CarWithItem_init(trigger_points) ==
    [NewScenario("CarWithItem", PointsOr(trigger_points, CarWithItem_default), <<FALSE, FALSE, FALSE>>, 0)
        EXCEPT !.actor_list = CarWithItem_actors]

\* list.pop(1) followed by list.append(item)
PopSecondAppend(list, item) ==
    Append([j \in 1..(Len(list) - 1) |-> IF j < 2 THEN list[j] ELSE list[j + 1]],
           item)

CarWithItem_trigger(s) == [s EXCEPT !.triggered = TRUE]

CarWithItem_tick(s, e, o) ==
    IF s.triggered
    THEN IF ~s.checkpoint[1]
         THEN IF o.vspeed < 17
              THEN Out(s, 0, <<"vehicle.apply_control">>, <<>>, FALSE, o.actors)
              ELSE IF Abs(o.veh_x - e.loc[1]) < 20
                   THEN Out([s EXCEPT !.checkpoint[1] = TRUE], 0,
                            <<"vehicle.apply_control">>, <<>>, FALSE, o.actors)
                   ELSE Out(s, 0, <<"vehicle.apply_control">>, <<>>, FALSE,
                            o.actors)
         ELSE IF ~s.checkpoint[2]
         THEN Out([s EXCEPT !.checkpoint[2] = TRUE], 0,
                  <<"vehicle.set_autopilot", "traffic_manager.update_vehicle_lights",
                    "traffic_manager.set_route">>, <<>>, FALSE, o.actors)
         ELSE IF ~s.checkpoint[3]
         THEN IF o.vspeed > 60
              THEN IF o.rnd > 98
                   THEN Out([s EXCEPT !.checkpoint[3] = TRUE,
                                      !.actor_list =
                                          PopSecondAppend(@, "item_respawned")],
                            0,
                            <<"item.destroy", "world.spawn_actor",
                              "item.set_simulate_physics">>, <<>>, FALSE,
                            [o.actors EXCEPT
                                !.alive = (@ \ {s.actor_list[2]})
                                              \cup {"item_respawned"}])
                   ELSE Out(s, 0, <<>>, <<>>, FALSE, o.actors)
              ELSE IF o.at_light /\ o.actors.light = "Red"
                   THEN Out(s, 0, <<"traffic_light.set_state">>, <<>>, FALSE,
                            SetGreen(o.actors))
                   ELSE Out(s, 0, <<>>, <<>>, FALSE, o.actors)
         ELSE IF s.autopilot_frames + 1 >= CarWithItem_frames
              THEN Out([s EXCEPT !.autopilot_frames = s.autopilot_frames + 1], 1,
                       <<"vehicle.set_autopilot">>, <<>>, FALSE, o.actors)
              ELSE Out([s EXCEPT !.autopilot_frames = s.autopilot_frames + 1], 0,
                       <<>>, <<>>, FALSE, o.actors)
    ELSE IF is_inside_bounding_box(e.loc, s.trigger_area[1], s.trigger_area[2])
         THEN Out(CarWithItem_trigger(s), 0, <<>>, <<>>, TRUE, o.actors)
         ELSE Out([s EXCEPT !.trigger_area =
                        update_trigger_points(s.trigger_points,
                                              get_vehicle_speed(e), TRUE, FALSE)],
                  0, <<>>, <<>>, FALSE, o.actors)

----------------------------------------------------------------------------
(* spawn_car_forward_dropoff_v2.py: CarForwardStoppingDropoff *)

CarForwardStoppingDropoff_timer == 120
DropoffPedestrianAt == 103
DropoffLeaveAt == 50

CarForwardStoppingDropoff_default == << <<36, 680>>, <<71, 700>> >>

CarForwardStoppingDropoff_actors == <<"vehicle", "collision_sensor", "pedestrian">>

CarForwardStoppingDropoff_init(trigger_points) ==
    [NewScenario("CarForwardStoppingDropoff", PointsOr(trigger_points, CarForwardStoppingDropoff_default),
                 <<FALSE, FALSE, FALSE, FALSE, FALSE, FALSE>>,
                 CarForwardStoppingDropoff_timer)
        EXCEPT !.actor_list = CarForwardStoppingDropoff_actors]

CarForwardStoppingDropoff_sensor_callback(s, other_role) ==
    [s EXCEPT !.collision_detected = TRUE]

CarForwardStoppingDropoff_trigger(s) == [s EXCEPT !.triggered = TRUE]

\* The branch of tick taken when triggered == 1.
CarForwardStoppingDropoff_tick_triggered(s, e, o) ==
    IF s.collision_detected
    THEN Out(s, 1, <<>>, <<"fail: collision">>, FALSE, o.actors)
    ELSE IF s.checkpoint[1] = FALSE
    THEN IF o.yaw > -60
         THEN Out([s EXCEPT !.checkpoint[1] = TRUE], 0,
                  <<"vehicle.apply_control">>, <<>>, FALSE, o.actors)
         ELSE Out(s, 0, <<>>, <<>>, FALSE, o.actors)
    ELSE IF s.checkpoint[2] = FALSE
    THEN IF o.yaw < -76
         THEN Out([s EXCEPT !.checkpoint[2] = TRUE], 0,
                  <<"vehicle.apply_control", "vehicle.set_light_state">>,
                  <<>>, FALSE, o.actors)
         ELSE Out(s, 0, <<>>, <<>>, FALSE, o.actors)
    ELSE IF s.checkpoint[3] = FALSE
    THEN IF o.vspeed < 2
         THEN Out([s EXCEPT !.checkpoint[3] = TRUE], 0,
                  <<"vehicle.open_door">>, <<>>, FALSE, o.actors)
         ELSE Out(s, 0, <<>>, <<>>, FALSE, o.actors)
    ELSE IF s.checkpoint[4] = FALSE
    THEN IF s.timer > DropoffPedestrianAt
         THEN Out([s EXCEPT !.timer = s.timer - 1], 0, <<>>, <<>>, FALSE,
                  o.actors)
         ELSE Out([s EXCEPT !.checkpoint[4] = TRUE], 0,
                  <<"pedestrian.set_transform", "pedestrian.apply_control">>,
                  <<>>, FALSE, o.actors)
    ELSE IF s.checkpoint[5] = FALSE
    THEN IF s.timer > DropoffLeaveAt /\ e.loc[2] > 755
         THEN Out([s EXCEPT !.timer = s.timer - 1], 0, <<>>, <<>>, FALSE,
                  o.actors)
         ELSE Out([s EXCEPT !.checkpoint[5] = TRUE], 0,
                  <<"vehicle.close_door", "vehicle.set_light_state",
                    "vehicle.apply_control">>, <<>>, FALSE, o.actors)
    ELSE IF s.checkpoint[6] = FALSE
    THEN IF o.yaw < -120
         THEN Out([s EXCEPT !.checkpoint[6] = TRUE], 0,
                  <<"vehicle.set_autopilot", "vehicle.set_light_state">>,
                  <<>>, FALSE, o.actors)
         ELSE Out(s, 0, <<>>, <<>>, FALSE, o.actors)
    ELSE IF s.timer > 0
         THEN Out([s EXCEPT !.timer = s.timer - 1], 0, <<>>, <<>>, FALSE,
                  o.actors)
         ELSE Out(s, 1, <<>>, <<>>, FALSE, o.actors)

\* The branch of tick taken while not triggered.
CarForwardStoppingDropoff_tick_idle(s, e, o) ==
    IF is_inside_bounding_box(e.loc, s.trigger_area[1], s.trigger_area[2])
    THEN Out(CarForwardStoppingDropoff_trigger(s), 0,
             <<"vehicle.apply_control", "vehicle.set_light_state">>, <<>>,
             TRUE, o.actors)
    ELSE LET moved == update_beginning_area(s.trigger_points[1],
                                            get_vehicle_speed(e), TRUE, FALSE)
         IN Out([s EXCEPT !.trigger_area[1] = moved,
                          !.trigger_points[1] = moved],
                0, <<>>, <<>>, FALSE, o.actors)

\* A tick that would open the door as soon as the first checkpoint is passed.
CarForwardStoppingDropoff_tick_eager(s, e, o) ==
    LET r == IF s.triggered THEN CarForwardStoppingDropoff_tick_triggered(s, e, o)
                            ELSE CarForwardStoppingDropoff_tick_idle(s, e, o)
    IN [r EXCEPT !.s.checkpoint[3] = @ \/ r.s.checkpoint[1]]

CarForwardStoppingDropoff_tick(s, e, o) ==
    IF s.triggered THEN CarForwardStoppingDropoff_tick_triggered(s, e, o)
                   ELSE CarForwardStoppingDropoff_tick_idle(s, e, o)

----------------------------------------------------------------------------
(* spawn_loose_zoo_animals.py: LooseZooAnimals.  The two animals' coordinates *)
(* are counted in 1/200 m, so that the steps 0.3, 2.1, 1.2 and 2.3 m/s times  *)
(* fixed_delta_seconds are whole numbers.                                     *)

ZooStep(tenths_per_second) == (tenths_per_second * 20) \div StepsPerSecond

GorillaSpawn == <<15580, 8080>>
GazelleSpawn == <<14240, 10440>>

LooseZooAnimals_default == << <<1020, 573>>, <<1047, 608>> >>

LooseZooAnimals_actors == <<"gazelle", "gorilla">>

LooseZooAnimals_init(trigger_points) ==
    [NewScenario("LooseZooAnimals", PointsOr(trigger_points, LooseZooAnimals_default), <<FALSE, FALSE>>, 0)
        EXCEPT !.gazelle_x = GazelleSpawn[1], !.gorilla_x = GorillaSpawn[1],
               !.actor_list = LooseZooAnimals_actors]

LooseZooAnimals_trigger(s) == [s EXCEPT !.triggered = TRUE]

LooseZooAnimals_tick(s, e, o) ==
    IF s.triggered
    THEN LET gazelle == o.actors.gazelle
             gorilla == o.actors.gorilla
             c0 == IF Abs(s.gorilla_x - gorilla[1]) > 20
                   THEN [s.checkpoint EXCEPT ![1] = TRUE] ELSE s.checkpoint
             c1 == IF Abs(s.gazelle_x - gazelle[1]) > 20
                   THEN [c0 EXCEPT ![2] = TRUE] ELSE c0
         IN IF c1[1] = FALSE
            THEN IF gorilla[2] < 10180
                 THEN LET g == <<gorilla[1] + ZooStep(3), gorilla[2] + ZooStep(21)>>
                      IN Out([s EXCEPT !.checkpoint = c1,
                                       !.gazelle_x = gazelle[1],
                                       !.gorilla_x = g[1]],
                             0, <<"gorilla.set_transform">>, <<>>, FALSE,
                             [o.actors EXCEPT !.gorilla = g])
                 ELSE Out([s EXCEPT !.checkpoint = [c1 EXCEPT ![1] = TRUE],
                                    !.gazelle_x = gazelle[1],
                                    !.gorilla_x = gorilla[1]],
                          0, <<>>, <<>>, FALSE, o.actors)
            ELSE IF c1[2] = FALSE
            THEN IF gazelle[2] > 7360
                 THEN LET g == <<gazelle[1] - ZooStep(12), gazelle[2] - ZooStep(23)>>
                      IN Out([s EXCEPT !.checkpoint = c1,
                                       !.gazelle_x = g[1],
                                       !.gorilla_x = gorilla[1]],
                             0, <<"gazelle.set_transform">>, <<>>, FALSE,
                             [o.actors EXCEPT !.gazelle = g])
                 ELSE Out([s EXCEPT !.checkpoint = [c1 EXCEPT ![2] = TRUE],
                                    !.gazelle_x = gazelle[1],
                                    !.gorilla_x = gorilla[1]],
                          0, <<>>, <<>>, FALSE, o.actors)
            ELSE Out([s EXCEPT !.checkpoint = c1], 1, <<>>, <<>>, FALSE, o.actors)
    ELSE IF is_inside_bounding_box(e.loc, s.trigger_area[1], s.trigger_area[2])
         THEN Out(LooseZooAnimals_trigger(s), 0, <<>>, <<>>, TRUE, o.actors)
         ELSE Out([s EXCEPT !.trigger_area =
                        update_trigger_points(s.trigger_points,
                                              get_vehicle_speed(e), TRUE, TRUE)],
                  0, <<>>, <<>>, FALSE, o.actors)

----------------------------------------------------------------------------
(* spawn_fallen_tree.py: FallenTree.  The class has no trigger_area: tick    *)
(* tests the ego vehicle against trigger_points                              *)

FallenTree_timer == 200

FallenTree_default == << <<-958, -49>>, <<-1372, 24>> >>

FallenTree_actors ==
    <<"tree", "pedestrian", "cop", "cop_car", "barrier1", "barrier2", "barrier3">>

FallenTree_init(trigger_points) ==
    [NewScenario("FallenTree", PointsOr(trigger_points, FallenTree_default), <<>>, FallenTree_timer)
        EXCEPT !.actor_list = FallenTree_actors]

FallenTree_trigger(s) == [s EXCEPT !.triggered = TRUE]

FallenTree_tick(s, e, o) ==
    IF s.triggered
    THEN IF (o.ped[1] = 0 /\ o.ped[2] = 0) \/ (o.cop[1] = 0 /\ o.cop[2] = 0)
         THEN Out(s, 1, <<>>, <<"fail: pedestrian killed">>, FALSE, o.actors)
         ELSE IF s.timer > 0
              THEN IF is_inside_bounding_box(e.loc, s.trigger_points[1],
                                             s.trigger_points[2])
                   THEN Out([s EXCEPT !.timer = s.timer - 1], 0, <<>>, <<>>,
                            FALSE, o.actors)
                   ELSE Out(s, 1, <<>>, <<"pass: obstacle avoided">>, FALSE,
                            o.actors)
              ELSE Out(s, 1, <<>>, <<"fail: timeout">>, FALSE, o.actors)
    ELSE IF is_inside_bounding_box(e.loc, s.trigger_points[1], s.trigger_points[2])
         THEN Out(FallenTree_trigger(s), 0, <<>>, <<>>, TRUE, o.actors)
         ELSE Out(s, 0, <<>>, <<>>, FALSE, o.actors)

----------------------------------------------------------------------------
(* spawn_dangerous_excavator.py: DangerousExcavator.  The yaw of the top of  *)
(* the excavator is counted in half degrees, so that the steps of 2 and 2.5  *)
(* degrees are whole numbers; tick reads back the yaw it set.                *)

DangerousExcavator_timer == 100

DangerousExcavator_default == << <<-1255, 1313>>, <<-1275, 1345>> >>

\* excavator_top_transform: yaw=135
ExcavatorYawAtStart == 270

DangerousExcavator_actors ==
    <<"construction_cone", "excavator_bottom", "excavator_top",
      "barrier1", "barrier2", "barrier3", "warning_sign">>

DangerousExcavator_init(trigger_points) ==
    [NewScenario("DangerousExcavator", PointsOr(trigger_points, DangerousExcavator_default),
                 <<FALSE>>, DangerousExcavator_timer)
        EXCEPT !.actor_list = DangerousExcavator_actors]

DangerousExcavator_trigger(s) == [s EXCEPT !.triggered = TRUE]

\* A countdown that would end one call earlier.
countdown_one_short(s, o) ==
    IF s.timer > 1
    THEN Out([s EXCEPT !.timer = s.timer - 1], 0, <<>>, <<>>, FALSE, o.actors)
    ELSE Out(s, 1, <<>>, <<>>, FALSE, o.actors)

\* A countdown that would take two ticks off the timer in one call.
countdown_two_at_a_time(s, o) ==
    IF s.timer > 0
    THEN Out([s EXCEPT !.timer = s.timer - 2], 0, <<>>, <<>>, FALSE, o.actors)
    ELSE Out(s, 1, <<>>, <<>>, FALSE, o.actors)

\* The last branch of the triggered tick: the countdown.
DangerousExcavator_countdown(s, o) ==
    IF s.timer > 0
    THEN Out([s EXCEPT !.timer = s.timer - 1], 0, <<>>, <<>>, FALSE, o.actors)
    ELSE Out(s, 1, <<>>, <<>>, FALSE, o.actors)

\* A tick that would run the countdown from the trigger on, while the arm
\* still has to swing out and back.
DangerousExcavator_tick_countdown_at_once(s, e, o) ==
    IF s.triggered
    THEN DangerousExcavator_countdown(s, o)
    ELSE IF is_inside_bounding_box(e.loc, s.trigger_area[1], s.trigger_area[2])
         THEN Out(DangerousExcavator_trigger(s), 0, <<>>, <<>>, TRUE, o.actors)
         ELSE Out([s EXCEPT !.trigger_area =
                        update_trigger_points(s.trigger_points,
                                              get_vehicle_speed(e), TRUE, TRUE)],
                  0, <<>>, <<>>, FALSE, o.actors)

DangerousExcavator_tick(s, e, o) ==
    IF s.triggered
    THEN LET yaw == o.actors.top_yaw IN
         IF s.checkpoint[1] = FALSE
         THEN IF yaw >= 100
              THEN Out(s, 0, <<"excavator_top.set_transform">>, <<>>, FALSE,
                       [o.actors EXCEPT !.top_yaw = yaw - 4])
              ELSE Out([s EXCEPT !.checkpoint[1] = TRUE], 0, <<>>, <<>>, FALSE,
                       o.actors)
         ELSE IF yaw < 260
         THEN Out(s, 0, <<"excavator_top.set_transform">>, <<>>, FALSE,
                  [o.actors EXCEPT !.top_yaw = yaw + 5])
         ELSE DangerousExcavator_countdown(s, o)
    ELSE IF is_inside_bounding_box(e.loc, s.trigger_area[1], s.trigger_area[2])
         THEN Out(DangerousExcavator_trigger(s), 0, <<>>, <<>>, TRUE, o.actors)
         ELSE Out([s EXCEPT !.trigger_area =
                        update_trigger_points(s.trigger_points,
                                              get_vehicle_speed(e), TRUE, TRUE)],
                  0, <<>>, <<>>, FALSE, o.actors)

----------------------------------------------------------------------------
(* spawn_parking_HGV.py: ParkingHGV *)

ParkingHGV_timer == 400

ParkingHGV_default == << <<-318, 1337>>, <<-710, 1405>> >>

\* The collision sensor is inserted before the last element.
ParkingHGV_actors == <<"collision_sensor", "hgv">>

ParkingHGV_init(trigger_points) ==
    [NewScenario("ParkingHGV", PointsOr(trigger_points, ParkingHGV_default),
                 <<FALSE, FALSE>>, ParkingHGV_timer)
        EXCEPT !.actor_list = ParkingHGV_actors]

ParkingHGV_sensor_callback(s, other_role) ==
    [s EXCEPT !.collision_detected = TRUE]

ParkingHGV_trigger(s) == [s EXCEPT !.triggered = TRUE]

\* The checkpoint part of the triggered tick: the checkpoints afterwards and
\* the commands sent to the HGV.
ParkingHGV_manoeuvre(s, o) ==
    IF s.checkpoint[1] = FALSE
    THEN IF o.veh_y < 1435
         THEN [checkpoint |-> s.checkpoint, ctl |-> <<"hgv.apply_control">>]
         ELSE [checkpoint |-> [s.checkpoint EXCEPT ![1] = TRUE],
               ctl |-> <<"hgv.apply_control", "hgv.set_light_state">>]
    ELSE IF s.checkpoint[2] = FALSE
    THEN IF o.veh_y > 1426
         THEN [checkpoint |-> s.checkpoint, ctl |-> <<"hgv.apply_control">>]
         ELSE [checkpoint |-> [s.checkpoint EXCEPT ![2] = TRUE],
               ctl |-> <<"hgv.apply_control", "hgv.set_light_state">>]
    ELSE [checkpoint |-> s.checkpoint, ctl |-> <<"hgv.apply_control">>]

\* A tick that would drive the HGV before it looks at the collision flag.
ParkingHGV_tick_flag_last(s, e, o) ==
    IF s.triggered
    THEN LET m == ParkingHGV_manoeuvre(s, o)
             t == [s EXCEPT !.checkpoint = m.checkpoint]
         IN IF s.collision_detected
            THEN Out(t, 1, m.ctl, <<"fail: collision">>, FALSE, o.actors)
            ELSE Out(t, 0, m.ctl, <<>>, FALSE, o.actors)
    ELSE IF is_inside_bounding_box(e.loc, s.trigger_area[1], s.trigger_area[2])
         THEN Out([s EXCEPT !.triggered = TRUE], 0, <<>>, <<>>, TRUE, o.actors)
         ELSE Out(s, 0, <<>>, <<>>, FALSE, o.actors)

ParkingHGV_tick(s, e, o) ==
    IF s.triggered
    THEN IF s.collision_detected
         THEN Out(s, 1, <<>>, <<"fail: collision">>, FALSE, o.actors)
         ELSE LET m == ParkingHGV_manoeuvre(s, o)
                  t == [s EXCEPT !.checkpoint = m.checkpoint]
              IN IF is_inside_bounding_box(e.loc, s.trigger_area[1],
                                           s.trigger_area[2])
                 THEN IF s.timer > 0 /\ get_vehicle_speed(e) > 1
                      THEN Out([t EXCEPT !.timer = s.timer - 1], 0, m.ctl,
                               <<>>, FALSE, o.actors)
                      ELSE Out(t, 1, m.ctl, <<"fail: timeout or stopped">>,
                               FALSE, o.actors)
                 ELSE Out(t, 1, m.ctl, <<"pass: obstacle passed">>, FALSE,
                          o.actors)
    ELSE IF is_inside_bounding_box(e.loc, s.trigger_area[1], s.trigger_area[2])
         THEN Out(ParkingHGV_trigger(s), 0, <<>>, <<>>, TRUE, o.actors)
         ELSE Out(s, 0, <<>>, <<>>, FALSE, o.actors)

----------------------------------------------------------------------------
(* spawn_change_texture.py: TextureChange *)

TextureChange_default == << <<-953, 103>>, <<-988, 151>> >>

TextureChange_actors == <<"pedestrian">>

TextureChange_init(trigger_points) ==
    [NewScenario("TextureChange", PointsOr(trigger_points, TextureChange_default), <<>>, 0)
        EXCEPT !.actor_list = TextureChange_actors]

TextureChange_trigger(s) == [s EXCEPT !.triggered = TRUE]

\* A tick that would look for the pass condition before the lost pedestrian.
TextureChange_tick_pass_first(s, e, o) ==
    IF s.triggered
    THEN IF \/ (e.loc[1] < -1207 /\ e.loc[2] > 375)
            \/ (o.ped[1] > -980 /\ o.ped[2] > 310)
            \/ (o.ped[1] = 0 /\ o.ped[2] = 0)
         THEN Out(s, 1, <<>>, <<"pass: pedestrian avoided">>, FALSE, o.actors)
         ELSE Out(s, 0, <<>>, <<>>, FALSE, o.actors)
    ELSE IF is_inside_bounding_box(e.loc, s.trigger_area[1], s.trigger_area[2])
         THEN Out([s EXCEPT !.triggered = TRUE], 0,
                  <<"pedestrian.apply_control">>, <<>>, TRUE, o.actors)
         ELSE Out([s EXCEPT !.trigger_area =
                        update_trigger_points(s.trigger_points,
                                              get_vehicle_speed(e), TRUE, TRUE)],
                  0, <<>>, <<>>, FALSE, o.actors)

TextureChange_tick(s, e, o) ==
    IF s.triggered
    THEN IF o.ped[1] = 0 /\ o.ped[2] = 0
         THEN Out(s, 1, <<>>, <<"fail: pedestrian killed">>, FALSE, o.actors)
         ELSE IF \/ (e.loc[1] < -1207 /\ e.loc[2] > 375)
                 \/ (o.ped[1] > -980 /\ o.ped[2] > 310)
              THEN Out(s, 1, <<>>, <<"pass: pedestrian avoided">>, FALSE,
                       o.actors)
              ELSE Out(s, 0, <<>>, <<>>, FALSE, o.actors)
    ELSE IF is_inside_bounding_box(e.loc, s.trigger_area[1], s.trigger_area[2])
         THEN Out(TextureChange_trigger(s), 0, <<"pedestrian.apply_control">>,
                  <<>>, TRUE, o.actors)
         ELSE Out([s EXCEPT !.trigger_area =
                        update_trigger_points(s.trigger_points,
                                              get_vehicle_speed(e), TRUE, TRUE)],
                  0, <<>>, <<>>, FALSE, o.actors)

----------------------------------------------------------------------------
(* spawn_static_car_crash_2.py: StaticCarCrash_2 *)

StaticCarCrash_2_timer == 200

StaticCarCrash_2_default == << <<-1040, 1344>>, <<-905, 1415>> >>

StaticCarCrash_2_actors ==
    <<"police_car", "taxi", "van", "woman", "man", "police_officer">>

StaticCarCrash_2_init(trigger_points) ==
    [NewScenario("StaticCarCrash_2",
                 PointsOr(trigger_points, StaticCarCrash_2_default),
                 <<FALSE>>, StaticCarCrash_2_timer)
        EXCEPT !.actor_list = StaticCarCrash_2_actors]

StaticCarCrash_2_trigger(s) == [s EXCEPT !.triggered = TRUE]

StaticCarCrash_2_tick(s, e, o) ==
    IF s.triggered
    THEN IF s.checkpoint[1] = FALSE
         THEN IF o.ego_at_light /\ o.actors.light \in {"Red", "Yellow"}
              THEN Out([s EXCEPT !.checkpoint[1] = TRUE], 0,
                       <<"traffic_light.set_state",
                         "traffic_light.set_green_time">>, <<>>, FALSE,
                       SetGreen(o.actors))
              ELSE Out(s, 0, <<>>, <<>>, FALSE, o.actors)
         ELSE IF is_inside_bounding_box(e.loc, s.trigger_area[1],
                                        s.trigger_area[2])
              THEN IF s.timer > 0
                   THEN Out([s EXCEPT !.timer = s.timer - 1], 0, <<>>, <<>>,
                            FALSE, o.actors)
                   ELSE Out(s, 1, <<>>, <<"fail: timeout">>, FALSE, o.actors)
              ELSE Out(s, 1, <<>>, <<"pass: obstacle avoided">>, FALSE, o.actors)
    ELSE IF is_inside_bounding_box(e.loc, s.trigger_area[1], s.trigger_area[2])
         THEN Out(StaticCarCrash_2_trigger(s), 0, <<>>, <<>>, TRUE, o.actors)
         ELSE Out(s, 0, <<>>, <<>>, FALSE, o.actors)

----------------------------------------------------------------------------
(* spawn_shoppingcart_highway.py: ShoppingcartRollingDown.  The roll and the *)
(* pitch of the cart are counted in tenths of a degree.                      *)

ShoppingcartRollingDown_frames == 50

ShoppingcartRollingDown_default == << <<1352, -1960>>, <<1372, -1887>> >>

ShoppingcartRollingDown_actors == <<"shoppingcart">>

ShoppingcartRollingDown_init(trigger_points) ==
    [NewScenario("ShoppingcartRollingDown",
                 PointsOr(trigger_points, ShoppingcartRollingDown_default),
                 <<FALSE, FALSE, FALSE>>, 0)
        EXCEPT !.actor_list = ShoppingcartRollingDown_actors]

ShoppingcartRollingDown_trigger(s) == [s EXCEPT !.triggered = TRUE]

\* The checkpoints after the test for a cart that has hit something.
\* The hit test as it would be if it took every cart for one that has tipped
\* over.
hit_whatever_the_cart_does(s, o) ==
    IF s.checkpoint[3] = FALSE THEN <<TRUE, TRUE, TRUE>> ELSE s.checkpoint

ShoppingcartRollingDown_hit(s, o) ==
    IF (o.cart_pitch > 60 \/ o.cart_roll < -60) /\ s.checkpoint[3] = FALSE
    THEN <<TRUE, TRUE, TRUE>>
    ELSE s.checkpoint

\* The part of the triggered tick that moves the cart: the object afterwards
\* and the commands sent to the cart.
ShoppingcartRollingDown_roll(s, o) ==
    LET c == ShoppingcartRollingDown_hit(s, o) IN
    IF c[1] = FALSE
    THEN [s |-> [s EXCEPT !.checkpoint =
                     IF o.cart_roll < 1 THEN [c EXCEPT ![1] = TRUE] ELSE c],
          ctl |-> <<"shoppingcart.set_transform">>]
    ELSE IF c[2] = FALSE
    THEN IF o.cart_y < -2075
         THEN [s |-> [s EXCEPT !.checkpoint = [c EXCEPT ![2] = TRUE]],
               ctl |-> <<"shoppingcart.set_transform",
                         "shoppingcart.add_impulse">>]
         ELSE [s |-> [s EXCEPT !.checkpoint = c],
               ctl |-> <<"shoppingcart.set_transform">>]
    ELSE [s |-> [s EXCEPT !.checkpoint = c,
                          !.autopilot_frames = s.autopilot_frames + 1],
          ctl |-> <<>>]

ShoppingcartRollingDown_tick(s, e, o) ==
    IF s.triggered
    THEN LET green == o.ego_at_light /\ o.actors.light = "Red"
             m == ShoppingcartRollingDown_roll(s, o)
         IN Out(m.s,
                IF m.s.autopilot_frames > ShoppingcartRollingDown_frames
                THEN 1 ELSE 0,
                (IF green THEN <<"traffic_light.set_state">> ELSE <<>>)
                    \o m.ctl,
                <<>>, FALSE,
                IF green THEN SetGreen(o.actors) ELSE o.actors)
    ELSE IF is_inside_bounding_box(e.loc, s.trigger_area[1], s.trigger_area[2])
         THEN Out(ShoppingcartRollingDown_trigger(s), 0,
                  <<"shoppingcart.set_simulate_physics",
                    "shoppingcart.set_enable_gravity">>, <<>>, TRUE, o.actors)
         ELSE Out([s EXCEPT !.trigger_area =
                        update_trigger_points(s.trigger_points,
                                              get_vehicle_speed(e), FALSE, TRUE)],
                  0, <<>>, <<>>, FALSE, o.actors)

----------------------------------------------------------------------------
(* Dispatch on the class of the object *)

Kinds == {"BoyFootball", "StaticCarCrash_1", "StaticEMSObstacle",
          "BusStopNearPlayground", "CarWithItem", "CarForwardStoppingDropoff",
          "LooseZooAnimals", "FallenTree", "DangerousExcavator", "ParkingHGV",
          "TextureChange", "StaticCarCrash_2", "ShoppingcartRollingDown"}

init(kind, trigger_points) ==
    CASE kind = "BoyFootball"      -> BoyFootball_init(trigger_points)
      [] kind = "StaticCarCrash_1" -> StaticCarCrash_1_init(trigger_points)
      [] kind = "StaticEMSObstacle" -> StaticEMSObstacle_init(trigger_points)
      [] kind = "BusStopNearPlayground" ->
            BusStopNearPlayground_init(trigger_points)
      [] kind = "CarWithItem" -> CarWithItem_init(trigger_points)
      [] kind = "CarForwardStoppingDropoff" ->
            CarForwardStoppingDropoff_init(trigger_points)
      [] kind = "LooseZooAnimals" -> LooseZooAnimals_init(trigger_points)
      [] kind = "FallenTree" -> FallenTree_init(trigger_points)
      [] kind = "DangerousExcavator" -> DangerousExcavator_init(trigger_points)
      [] kind = "ParkingHGV" -> ParkingHGV_init(trigger_points)
      [] kind = "TextureChange" -> TextureChange_init(trigger_points)
      [] kind = "StaticCarCrash_2" -> StaticCarCrash_2_init(trigger_points)
      [] kind = "ShoppingcartRollingDown" ->
            ShoppingcartRollingDown_init(trigger_points)

tick(s, e, o) ==
    CASE s.kind = "BoyFootball"      -> BoyFootball_tick(s, e, o)
      [] s.kind = "StaticCarCrash_1" -> StaticCarCrash_1_tick(s, e, o)
      [] s.kind = "StaticEMSObstacle" -> StaticEMSObstacle_tick(s, e, o)
      [] s.kind = "BusStopNearPlayground" -> BusStopNearPlayground_tick(s, e, o)
      [] s.kind = "CarWithItem" -> CarWithItem_tick(s, e, o)
      [] s.kind = "CarForwardStoppingDropoff" ->
            CarForwardStoppingDropoff_tick(s, e, o)
      [] s.kind = "LooseZooAnimals" -> LooseZooAnimals_tick(s, e, o)
      [] s.kind = "FallenTree" -> FallenTree_tick(s, e, o)
      [] s.kind = "DangerousExcavator" -> DangerousExcavator_tick(s, e, o)
      [] s.kind = "ParkingHGV" -> ParkingHGV_tick(s, e, o)
      [] s.kind = "TextureChange" -> TextureChange_tick(s, e, o)
      [] s.kind = "StaticCarCrash_2" -> StaticCarCrash_2_tick(s, e, o)
      [] s.kind = "ShoppingcartRollingDown" ->
            ShoppingcartRollingDown_tick(s, e, o)

\* The classes that attach collision sensors and register sensor_callback.
SensorKinds == {"StaticEMSObstacle", "BusStopNearPlayground",
                "CarForwardStoppingDropoff", "ParkingHGV"}

sensor_callback(s, other_role) ==
    CASE s.kind = "StaticEMSObstacle" ->
            StaticEMSObstacle_sensor_callback(s, other_role)
      [] s.kind = "BusStopNearPlayground" ->
            BusStopNearPlayground_sensor_callback(s, other_role)
      [] s.kind = "CarForwardStoppingDropoff" ->
            CarForwardStoppingDropoff_sensor_callback(s, other_role)
      [] s.kind = "ParkingHGV" -> ParkingHGV_sensor_callback(s, other_role)

\* The classes whose idle branch moves the trigger area, and those among
\* them that assign into element 0 of the list shared with trigger_points.
TranslatingKinds == {"BoyFootball", "CarWithItem", "LooseZooAnimals",
                     "BusStopNearPlayground", "CarForwardStoppingDropoff",
                     "DangerousExcavator", "TextureChange",
                     "ShoppingcartRollingDown"}
BeginningAreaKinds == {"BusStopNearPlayground", "CarForwardStoppingDropoff"}

\* The add_speed and add_to_x arguments each class passes in its idle branch.
Compensation(kind) ==
    CASE kind = "BoyFootball"     -> [add_speed |-> FALSE, add_to_x |-> TRUE]
      [] kind = "CarWithItem"     -> [add_speed |-> TRUE,  add_to_x |-> FALSE]
      [] kind = "LooseZooAnimals" -> [add_speed |-> TRUE,  add_to_x |-> TRUE]
      [] kind = "BusStopNearPlayground"     -> [add_speed |-> TRUE, add_to_x |-> FALSE]
      [] kind = "CarForwardStoppingDropoff" -> [add_speed |-> TRUE, add_to_x |-> FALSE]
      [] kind = "DangerousExcavator" -> [add_speed |-> TRUE, add_to_x |-> TRUE]
      [] kind = "TextureChange"      -> [add_speed |-> TRUE, add_to_x |-> TRUE]
      [] kind = "ShoppingcartRollingDown" ->
            [add_speed |-> FALSE, add_to_x |-> TRUE]

----------------------------------------------------------------------------
(* Inputs *)

MaxShifts == 2
MaxHits == 1
MaxHitSteps == 2
MaxOvertime == 2

\* The 10 m square [(0,0),(10,10)].
Square == << <<0, 0>>, <<100, 100>> >>

\* trigger_points arguments given to the constructors.
TriggerChoices(kind) ==
    CASE kind \in {"BusStopNearPlayground", "CarForwardStoppingDropoff"} -> {None}
      [] kind = "StaticCarCrash_1" -> {Square, << Square[2], Square[1] >>}
      [] OTHER -> {Square}

EgoAtStart == [loc |-> <<5000, 5000>>, speed |-> 0]

ActorsAtStart ==
    [gorilla |-> GorillaSpawn, gazelle |-> GazelleSpawn, hits |-> 0,
     top_yaw |-> ExcavatorYawAtStart, alive |-> {},
     light |-> "Green", light_sets |-> 0]

Range(list) == { list[i] : i \in 1..Len(list) }

\* The simulator after world.spawn_actor for every actor of list.
Spawned(a, list) == [a EXCEPT !.alive = @ \cup Range(list)]

\* What the running loop has done with the scenarios of each class: whether
\* a tick has returned 1 and how many world steps ago (-1: not yet), how many
\* times destroy was called, and how many tick calls came after a return of
\* 1 or after destroy.
HistAtStart ==
    [k \in Kinds |-> [one_age |-> -1, destroys |-> 0, late |-> 0,
                      destroyed_at |-> -2, step_ticks |-> 0]]

\* What the owned actors report to one tick call.
Reading(a) ==
    [ped |-> <<800, 1434>>, cop |-> <<-1010, -46>>,
     yaw |-> -70, veh_y |-> -800, veh_x |-> 300,
     vspeed |-> 10, rnd |-> 50, at_light |-> FALSE, ego_at_light |-> FALSE,
     cart_roll |-> 80, cart_pitch |-> 0, cart_y |-> -1773, actors |-> a]

\* The traffic light goes through its cycle between two calls; it is seen
\* to have gone back to red or yellow MaxLightSets times at most.
MaxLightSets == 2

Lit(a, colour) ==
    IF colour = "Green" \/ a.light_sets < MaxLightSets
    THEN [a EXCEPT !.light = colour]
    ELSE a

Ego(x, y, speed) == [loc |-> <<x, y>>, speed |-> speed]

Hit(a, who) ==
    IF who = "gorilla"
    THEN [a EXCEPT !.gorilla[1] = @ + 30, !.hits = @ + 1]
    ELSE [a EXCEPT !.gazelle[1] = @ + 30, !.hits = @ + 1]

\* Traffic displaces an animal only within its first MaxHitSteps steps from
\* where it was spawned, and MaxHits times in all.
CanBeHit(a, who) ==
    /\ a.hits < MaxHits
    /\ IF who = "gorilla"
       THEN a.gorilla[2] - GorillaSpawn[2] <= MaxHitSteps * ZooStep(21)
       ELSE GazelleSpawn[2] - a.gazelle[2] <= MaxHitSteps * ZooStep(23)

\* Places for the ego vehicle, told from the rectangle the scenario was
\* constructed with: its middle, far away from it, 1 m outside the edge the
\* idle branch moves the area towards (Lead), and 1 m inside the opposite
\* edge (Trail).
Centre(points) ==
    <<(points[1][1] + points[2][1]) \div 2, (points[1][2] + points[2][2]) \div 2>>

FarAway == <<5000, 5000>>

Edge(points, axis, upper) ==
    IF upper THEN Max2(points[1][axis], points[2][axis])
             ELSE Min2(points[1][axis], points[2][axis])

Lead(s) ==
    LET c == Compensation(s.kind)
        axis == IF c.add_to_x THEN 1 ELSE 2
        at == IF c.add_speed THEN Edge(s.trigger_points, axis, TRUE) + 10
                             ELSE Edge(s.trigger_points, axis, FALSE) - 10
    IN [Centre(s.trigger_points) EXCEPT ![axis] = at]

Trail(s) ==
    LET c == Compensation(s.kind)
        axis == IF c.add_to_x THEN 1 ELSE 2
        at == IF c.add_speed THEN Edge(s.trigger_points, axis, FALSE) + 10
                             ELSE Edge(s.trigger_points, axis, TRUE) - 10
    IN [Centre(s.trigger_points) EXCEPT ![axis] = at]

At(loc, speed) == [loc |-> loc, speed |-> speed]

\* The worlds one tick call may find: the ego vehicle and the readings of
\* the owned actors, chosen to reach both sides of every comparison of tick.
Worlds(s, a) ==
    LET mid == Centre(s.trigger_points) IN
    CASE s.kind = "BoyFootball" ->
            { <<At(mid, 0),      [Reading(a) EXCEPT !.ped = <<800, 1434>>]>>,
              <<At(FarAway, 20), [Reading(a) EXCEPT !.ped = <<800, 1380>>]>>,
              <<At(Trail(s), 0), [Reading(a) EXCEPT !.ped = <<800, 1300>>]>>,
              <<At(Lead(s), 20), [Reading(a) EXCEPT !.ped = <<800, 1260>>]>>,
              <<At(mid, 0),      [Reading(a) EXCEPT !.ped = <<0, 0>>]>> }
      [] s.kind = "BusStopNearPlayground" ->
            { <<Ego(1550, -500, 0),
                [Reading(a) EXCEPT !.yaw = -60, !.veh_y = -800]>>,
              <<Ego(1550, -400, 20),
                [Reading(a) EXCEPT !.yaw = -90, !.veh_y = -800]>>,
              <<Ego(1550, -1000, 20),
                [Reading(a) EXCEPT !.yaw = -90, !.veh_y = -980]>>,
              <<Ego(1550, -1000, 0),
                [Reading(a) EXCEPT !.yaw = -70, !.veh_y = -800]>>,
              <<At(FarAway, 20),
                [Reading(a) EXCEPT !.yaw = -70, !.veh_y = -800]>> }
      [] s.kind = "CarForwardStoppingDropoff" ->
            { <<Ego(50, 690, 0),  [Reading(a) EXCEPT !.yaw = -50, !.vspeed = 10]>>,
              <<Ego(50, 715, 20), [Reading(a) EXCEPT !.yaw = -80, !.vspeed = 10]>>,
              <<Ego(50, 800, 0),  [Reading(a) EXCEPT !.yaw = -80, !.vspeed = 0]>>,
              <<Ego(50, 800, 20), [Reading(a) EXCEPT !.yaw = -130, !.vspeed = 10]>>,
              <<Ego(50, 690, 0),  [Reading(a) EXCEPT !.yaw = -70, !.vspeed = 10]>> }
      [] s.kind = "CarWithItem" ->
            { <<At(mid, 0),
                [Reading(a) EXCEPT !.vspeed = 10, !.veh_x = mid[1] + 250]>>,
              <<At(FarAway, 20),
                [Reading(a) EXCEPT !.vspeed = 30, !.veh_x = mid[1] + 250]>>,
              <<At(Lead(s), 20),
                [Reading(a) EXCEPT !.vspeed = 30, !.veh_x = mid[1],
                                   !.at_light = TRUE,
                                   !.actors = Lit(a, "Red")]>>,
              <<At(Lead(s), 0),
                [Reading(a) EXCEPT !.vspeed = 30, !.veh_x = mid[1],
                                   !.at_light = TRUE,
                                   !.actors = Lit(a, "Green")]>>,
              <<At(mid, 0),
                [Reading(a) EXCEPT !.vspeed = 70, !.veh_x = mid[1], !.rnd = 50]>>,
              <<At(mid, 0),
                [Reading(a) EXCEPT !.vspeed = 70, !.veh_x = mid[1], !.rnd = 99]>> }
      [] s.kind = "LooseZooAnimals" ->
            { <<At(mid, 0), Reading(a)>>,
              <<At(FarAway, 20), Reading(a)>>,
              <<At(Lead(s), 20), Reading(a)>> }
            \cup
            { <<At(mid, 0), Reading(Hit(a, who))>> :
                who \in { x \in {"gorilla", "gazelle"} : CanBeHit(a, x) } }
      [] s.kind = "FallenTree" ->
            { <<At(mid, 0), Reading(a)>>,
              <<At(FarAway, 20), Reading(a)>>,
              <<At(mid, 0), [Reading(a) EXCEPT !.ped = <<0, 0>>]>>,
              <<At(mid, 0), [Reading(a) EXCEPT !.cop = <<0, 0>>]>> }
      [] s.kind = "DangerousExcavator" ->
            { <<At(mid, 0), Reading(a)>>,
              <<At(FarAway, 20), Reading(a)>>,
              <<At(Lead(s), 20), Reading(a)>> }
      [] s.kind = "ParkingHGV" ->
            { <<At(mid, 20), [Reading(a) EXCEPT !.veh_y = 1400]>>,
              <<At(mid, 20), [Reading(a) EXCEPT !.veh_y = 1440]>>,
              <<At(mid, 20), [Reading(a) EXCEPT !.veh_y = 1420]>>,
              <<At(mid, 0), [Reading(a) EXCEPT !.veh_y = 1400]>>,
              <<At(FarAway, 20), [Reading(a) EXCEPT !.veh_y = 1400]>> }
      [] s.kind = "TextureChange" ->
            { <<At(mid, 0), [Reading(a) EXCEPT !.ped = <<-1000, 200>>]>>,
              <<At(FarAway, 20), [Reading(a) EXCEPT !.ped = <<-1000, 200>>]>>,
              <<At(Lead(s), 20), [Reading(a) EXCEPT !.ped = <<-1000, 200>>]>>,
              <<At(mid, 0), [Reading(a) EXCEPT !.ped = <<0, 0>>]>>,
              <<At(mid, 0), [Reading(a) EXCEPT !.ped = <<-900, 320>>]>>,
              <<Ego(-1300, 400, 20),
                [Reading(a) EXCEPT !.ped = <<-1000, 200>>]>> }
      [] s.kind = "StaticCarCrash_2" ->
            { <<At(mid, 0), Reading(a)>>,
              <<At(FarAway, 20), Reading(a)>>,
              <<At(mid, 0), [Reading(a) EXCEPT !.ego_at_light = TRUE,
                                               !.actors = Lit(a, "Red")]>>,
              <<At(mid, 0), [Reading(a) EXCEPT !.ego_at_light = TRUE,
                                               !.actors = Lit(a, "Yellow")]>>,
              <<At(mid, 0), [Reading(a) EXCEPT !.ego_at_light = TRUE,
                                               !.actors = Lit(a, "Green")]>> }
      [] s.kind = "ShoppingcartRollingDown" ->
            { <<At(mid, 0), Reading(a)>>,
              <<At(FarAway, 20), Reading(a)>>,
              <<At(Lead(s), 20), Reading(a)>>,
              <<At(mid, 0), [Reading(a) EXCEPT !.cart_roll = 0]>>,
              <<At(mid, 0), [Reading(a) EXCEPT !.cart_roll = 0,
                                               !.cart_y = -2080]>>,
              <<At(mid, 0), [Reading(a) EXCEPT !.cart_roll = -70]>>,
              <<At(mid, 0), [Reading(a) EXCEPT !.ego_at_light = TRUE,
                                               !.actors = Lit(a, "Red")]>>,
              <<At(mid, 0), [Reading(a) EXCEPT !.ego_at_light = TRUE,
                                               !.cart_roll = 0,
                                               !.actors = Lit(a, "Yellow")]>> }
      [] OTHER ->
            { <<At(mid, 0), Reading(a)>>, <<At(FarAway, 20), Reading(a)>> }

----------------------------------------------------------------------------
(* destroy: the same in every class, but for the sensors it stops first *)

MaxDestroys == 2

\* The sensors destroy calls stop() on before it sends the batch.
SensorStops(s) ==
    CASE s.kind = "StaticEMSObstacle" -> SubSeq(s.actor_list, 1, 4)
      [] s.kind \in {"BusStopNearPlayground", "CarForwardStoppingDropoff",
                     "ParkingHGV"} -> <<"collision_sensor">>
      [] OTHER -> <<>>

\* client.apply_batch([carla.command.DestroyActor(x) for x in self.actor_list])
destroy(s) == [stops |-> SensorStops(s), batch |-> s.actor_list]

----------------------------------------------------------------------------
(* Any sequence of tick calls and sensor callbacks on one scenario object *)

Init ==
    /\ \E k \in Kinds : \E tp \in TriggerChoices(k) :
           scn = init(k, tp) /\ caller_points = tp
    /\ ego = EgoAtStart
    /\ actors = Spawned(ActorsAtStart, scn.actor_list)
    /\ ret = -1
    /\ ctl = <<>>
    /\ msg = <<>>
    /\ trig_calls = 0
    /\ op = "init"
    /\ pc = "tick"
    /\ route = "free"
    /\ driver = "none"
    /\ scenarios = <<>>
    /\ scenario_timers = <<>>
    /\ index = 0
    /\ stalls = 0
    /\ ones = [k \in Kinds |-> 0]
    /\ elapsed = 0
    /\ batches = <<>>
    /\ hist = HistAtStart
    /\ call = NoCall

\* The beginning corner may be pushed MaxShifts steps from where the
\* constructor put it, and the frame counter may pass its limit by
\* MaxOvertime calls.
WithinBounds(s) ==
    /\ s.kind \in BeginningAreaKinds =>
           s.trigger_area[1][2] - init(s.kind, None).trigger_area[1][2]
               <= MaxShifts * 20
    /\ s.autopilot_frames <= CarWithItem_frames + MaxOvertime

\* One call scenario.tick(ego_vehicle) with the world as it is at the call.
Tick ==
    \E w \in Worlds(scn, actors) :
        LET r == tick(scn, w[1], w[2]) IN
        /\ batches = <<>>
        /\ WithinBounds(r.s)
        /\ scn' = r.s
        /\ ego' = w[1]
        /\ actors' = r.actors
        /\ ret' = r.ret
        /\ ctl' = r.ctl
        /\ msg' = r.msg
        /\ trig_calls' = IF r.trig THEN trig_calls + 1 ELSE trig_calls
        /\ op' = "tick"
        /\ UNCHANGED <<pc, route, dvars>>

\* The simulator invokes the collision callback between two tick calls.
SensorCallback ==
    /\ batches = <<>>
    /\ scn.kind \in SensorKinds
    /\ \E other_role \in {"ego", "other"} :
           scn' = sensor_callback(scn, other_role)
    /\ op' = "callback"
    /\ UNCHANGED <<ego, actors, ret, ctl, msg, trig_calls, pc, route, dvars>>

\* One call scenario.destroy(client), in whatever state the object is.
Destroy ==
    /\ Len(batches) < MaxDestroys
    /\ LET d == destroy(scn) IN
         /\ batches' = Append(batches, d)
         /\ actors' = [actors EXCEPT !.alive = @ \ Range(d.batch)]
    /\ op' = "destroy"
    /\ UNCHANGED <<scn, ego, ret, ctl, msg, trig_calls, pc, route, driver,
                   scenarios, scenario_timers, index, stalls, ones, elapsed,
                   hist, call,
                   caller_points>>

Next == Tick \/ SensorCallback \/ Destroy

Spec == Init /\ [][Next]_vars

----------------------------------------------------------------------------
(* Properties of one scenario object under any sequence of calls *)

InsideArea(e, s) ==
    is_inside_bounding_box(e.loc, s.trigger_area[1], s.trigger_area[2])

C3_AtMostOneTrigger ==
    /\ [](trig_calls <= 1 /\ (scn.triggered <=> trig_calls = 1))
    /\ [][(scn.triggered => scn'.triggered) /\ trig_calls' >= trig_calls]_vars

\* A triggered BoyFootball whose pedestrian has already turned back is
\* ticked with the ego vehicle inside the trigger area once more.
C3_Witness ==
    /\ scn.kind = "BoyFootball"
    /\ op = "tick"
    /\ scn.triggered /\ trig_calls = 1
    /\ scn.checkpoint = <<TRUE>>
    /\ InsideArea(ego, scn)

PresenceKinds == {"StaticCarCrash_1", "StaticEMSObstacle"}

\* C4: once the tick of a presence-check scenario has returned 1, no later
\* tick returns 0 or changes the timer or the checkpoints.
C4_CompletedAbsorbing ==
    [][(scn.kind \in PresenceKinds /\ ret = 1 /\ op' = "tick")
         => /\ ret' = 1
            /\ scn'.timer = scn.timer
            /\ scn'.checkpoint = scn.checkpoint]_vars

\* C8: once triggered, no call changes trigger_area or trigger_points.
C8_AreaFrozen ==
    [][scn.triggered => /\ scn'.trigger_area = scn.trigger_area
                        /\ scn'.trigger_points = scn.trigger_points]_vars

\* A BoyFootball triggered inside a translated area, ticked on until its
\* pedestrian turned back.
C8_Witness ==
    /\ scn.kind = "BoyFootball"
    /\ op = "tick"
    /\ scn.triggered
    /\ scn.trigger_area # scn.trigger_points
    /\ scn.checkpoint = <<TRUE>>

\* The displacement the idle branch of a class applies for a given speed.
Offset(kind, speed) ==
    LET c == Compensation(kind)
        d == IF c.add_speed THEN speed ELSE -speed
    IN IF c.add_to_x THEN <<d, 0>> ELSE <<0, d>>

Plus(p, v) == <<p[1] + v[1], p[2] + v[2]>>

Extent(area) == <<area[2][1] - area[1][1], area[2][2] - area[1][2]>>

IdleTickOutside ==
    op' = "tick" /\ ~scn.triggered /\ ~InsideArea(ego', scn)

Ordered(checkpoint) ==
    \A i \in 2..Len(checkpoint) : checkpoint[i] => checkpoint[i - 1]

\* C9 as stated: in every scenario with a checkpoint list, checkpoint i is
\* true only if checkpoint i-1 is true.
C9_OrderedInEveryScenario == Ordered(scn.checkpoint)

\* C9: checkpoint i is true only if checkpoint i-1 is true in every class
\* but LooseZooAnimals; there the gazelle's checkpoint can be true before the
\* gorilla's, and only after the gazelle was displaced sideways.
C9_OrderedButZoo ==
    /\ scn.kind # "LooseZooAnimals" => Ordered(scn.checkpoint)
    /\ (scn.kind = "LooseZooAnimals" /\ ~Ordered(scn.checkpoint))
          => /\ scn.checkpoint = <<FALSE, TRUE>>
             /\ actors.gazelle[1] # GazelleSpawn[1]

\* CarForwardStoppingDropoff half way: door open, pedestrian not yet out.
C9_Witness ==
    /\ scn.kind = "CarForwardStoppingDropoff"
    /\ op = "tick"
    /\ scn.checkpoint = <<TRUE, TRUE, TRUE, FALSE, FALSE, FALSE>>
    /\ scn.timer < CarForwardStoppingDropoff_timer

\* C10: all checkpoints are false after construction and stay false while
\* the scenario is idle, an idle tick changes no timer and sends no command
\* to an owned actor, and a checkpoint that is true is never set back.
C10_CheckpointsLatch ==
    /\ [](~scn.triggered =>
            /\ \A i \in DOMAIN scn.checkpoint : ~scn.checkpoint[i]
            /\ scn.timer = init(scn.kind, None).timer
            /\ scn.autopilot_frames = 0
            /\ ctl = <<>>)
    /\ [][/\ DOMAIN scn'.checkpoint = DOMAIN scn.checkpoint
          /\ \A i \in DOMAIN scn.checkpoint :
                 scn.checkpoint[i] => scn'.checkpoint[i]]_vars

\* CarForwardStoppingDropoff run to its end after idle ticks that moved the
\* beginning of its area: all six checkpoints true, the countdown at 0.
C10_Witness ==
    /\ scn.kind = "CarForwardStoppingDropoff"
    /\ op = "tick"
    /\ scn.trigger_area[1] # CarForwardStoppingDropoff_default[1]
    /\ scn.checkpoint = <<TRUE, TRUE, TRUE, TRUE, TRUE, TRUE>>
    /\ scn.timer = 0
    /\ ret = 1

----------------------------------------------------------------------------
(* An ego vehicle driving up to the trigger rectangle of an idle scenario,   *)
(* one tick call and one world step at a time, as in the loop of main()      *)

\* The classes that translate the whole rectangle with update_trigger_points.
ApproachKinds == {"BoyFootball", "CarWithItem", "LooseZooAnimals"}

\* 2 m/s, 2.1 m/s and 14 m/s.
ApproachSpeeds == {20, 21, 140}

\* The most the speed changes during one world step on the route "vary".
SpeedChange == 1

\* The farthest the vehicle starts in front of the translated rectangle.
MaxApproach == 8

Axis(kind) == IF Compensation(kind).add_to_x THEN 1 ELSE 2

\* The vehicle drives against the displacement the idle branch applies.
Heading(kind) == IF Compensation(kind).add_speed THEN -1 ELSE 1

NearEdge(area, kind) == Edge(area, Axis(kind), Heading(kind) = -1)
FarEdge(area, kind) == Edge(area, Axis(kind), Heading(kind) = 1)

\* Distance left from loc to the near edge of area, along the heading.
Gap(loc, area, kind) ==
    Heading(kind) * (NearEdge(area, kind) - loc[Axis(kind)])

Beyond(loc, area, kind) ==
    Heading(kind) * (loc[Axis(kind)] - FarEdge(area, kind)) > 0

Advance(loc, kind, dist) ==
    [loc EXCEPT ![Axis(kind)] = @ + Heading(kind) * dist]

InitApproach ==
    /\ \E k \in ApproachKinds, v \in ApproachSpeeds, d \in 1..MaxApproach :
          LET s == init(k, None)
              translated == Plus(s.trigger_points[1], Offset(k, v))
              abreast == [Centre(s.trigger_points) EXCEPT
                             ![Axis(k)] = NearEdge(<<translated, Plus(s.trigger_points[2], Offset(k, v))>>, k)]
          IN /\ scn = s
             /\ ego = At(Advance(abreast, k, -d), v)
    /\ route \in {"cruise", "vary"}
    /\ actors = Spawned(ActorsAtStart, scn.actor_list)
    /\ ret = -1
    /\ ctl = <<>>
    /\ msg = <<>>
    /\ trig_calls = 0
    /\ op = "init"
    /\ pc = "tick"
    /\ driver = "none"
    /\ scenarios = <<>>
    /\ scenario_timers = <<>>
    /\ index = 0
    /\ stalls = 0
    /\ ones = [k \in Kinds |-> 0]
    /\ elapsed = 0
    /\ batches = <<>>
    /\ hist = HistAtStart
    /\ call = NoCall
    /\ caller_points = None

\* sucess = Scenario.tick(ego_vehicle_actor)
ApproachTick ==
    /\ pc = "tick"
    /\ LET r == tick(scn, ego, Reading(actors)) IN
        /\ scn' = r.s
        /\ actors' = r.actors
        /\ ret' = r.ret
        /\ ctl' = r.ctl
        /\ msg' = r.msg
        /\ trig_calls' = IF r.trig THEN trig_calls + 1 ELSE trig_calls
    /\ op' = "tick"
    /\ pc' = "world"
    /\ UNCHANGED <<ego, route, dvars>>

\* world.tick(): the vehicle covers speed * fixed_delta_seconds; on the
\* route "cruise" it keeps its speed, on the route "vary" it may change it.  The run is followed until the vehicle
\* has left the rectangle behind.
WorldTick ==
    /\ pc = "world"
    /\ ~Beyond(ego.loc, scn.trigger_area, scn.kind)
    /\ \E v \in { u \in ApproachSpeeds :
                     \/ u = ego.speed
                     \/ route = "vary" /\ Abs(u - ego.speed) <= SpeedChange } :
           ego' = At(Advance(ego.loc, scn.kind, v \div StepsPerSecond), v)
    /\ op' = "world"
    /\ pc' = "tick"
    /\ UNCHANGED <<scn, actors, ret, ctl, msg, trig_calls, route, dvars>>

NextApproach == ApproachTick \/ WorldTick

SpecApproach == InitApproach /\ [][NextApproach]_vars

\* C5: at constant speed the ego vehicle never gets from in front of the
\* translated area to behind it without the scenario having triggered.
C5_NoTriggerSkip ==
    route = "cruise" =>
        ~(Beyond(ego.loc, scn.trigger_area, scn.kind) /\ ~scn.triggered)

\* Where the vehicle was at the previous tick call.
PreviousLoc(e, kind) == Advance(e.loc, kind, -(e.speed \div StepsPerSecond))

----------------------------------------------------------------------------
(* The loops that run scenarios: the main loop of start_car.py over its      *)
(* list of scenarios, and the main loop of a scenario file over its one      *)
(* Scenario                                                                  *)

\* start_car.py: --timer, default=800
args_timer == 800

\* main() of a scenario file: scenario_timer = 600
scenario_timer == 600

\* The files that start their watchdog at another value.
CarWithItem_scenario_timer == 1000
FallenTree_scenario_timer == 1200
ShoppingcartRollingDown_scenario_timer == 1000

main_scenario_timer(kind) ==
    CASE kind = "CarWithItem" -> CarWithItem_scenario_timer
      [] kind = "FallenTree"  -> FallenTree_scenario_timer
      [] kind = "ShoppingcartRollingDown" ->
            ShoppingcartRollingDown_scenario_timer
      [] OTHER                -> scenario_timer

\* World steps counted after a tick has returned 1.
MaxAge == 3

\* The classes of start_car's list that are modelled here, in list order.
Roster == <<"BoyFootball", "StaticCarCrash_1">>

\* Watchdog steps that may pass on tick calls that change nothing.
MaxStall == 1

\* start_car.py, after sucess = scenario.tick(...): the new watchdog timer.
start_car_watchdog_ticking(timer, triggered, sucess) ==
    IF triggered THEN timer - 1 ELSE timer

\* A watchdog that would count every tick call, triggered or not.
start_car_watchdog_untriggered(timer, triggered, sucess) ==
    IF sucess = 1 THEN 0 ELSE timer - 1

start_car_watchdog(timer, triggered, sucess) ==
    IF triggered
    THEN IF sucess = 1 THEN 0 ELSE timer - 1
    ELSE timer

\* main(), after sucess = Scenario.tick(...): the new watchdog timer.
main_watchdog(timer, sucess) ==
    IF sucess = 1 THEN 0 ELSE timer - 1

\* list.pop(index)
Pop(list, i) == [j \in 1..(Len(list) - 1) |-> IF j < i THEN list[j] ELSE list[j + 1]]

\* Whether a tick call got the scenario anywhere.
Progress(s, a, r) ==
    \/ r.ret = 1
    \/ r.s.triggered # s.triggered
    \/ r.s.checkpoint # s.checkpoint
    \/ r.s.timer # s.timer
    \/ r.s.autopilot_frames # s.autopilot_frames
    \/ r.actors # a

\* The worlds a tick call of the running loop may find with the ego vehicle
\* where the latest world step put it.  On the route "live" any world of
\* Worlds; on the parked routes the vehicle stands still and the owned
\* actors read the same at every call.
WorldsNow(s, a) ==
    IF route = "live"
    THEN LET W == { w \in Worlds(s, a) : w[1] = ego }
         IN IF W = {} THEN { <<ego, Reading(a)>> } ELSE W
    ELSE { <<ego, Reading(a)>> }

\* Where the next world step may put the ego vehicle.
EgosNext(list, a) ==
    IF route = "live"
    THEN {EgoAtStart} \cup
         UNION { { w[1] : w \in Worlds(list[i], a) } : i \in 1..Len(list) }
    ELSE {ego}

\* What the loop has done with each class: one_age is -1 until a tick of the
\* class has returned 1 and then the number of world.tick() calls since;
\* late counts tick calls made after a 1 or after destroy; destroyed_at is
\* one_age at the destroy call; step_ticks counts the tick calls since the
\* latest world.tick().
AfterTick(h, kind, sucess) ==
    [h EXCEPT ![kind].late = IF h[kind].one_age >= 0 \/ h[kind].destroys > 0
                             THEN @ + 1 ELSE @,
              ![kind].one_age = IF sucess = 1 /\ @ = -1 THEN 0 ELSE @,
              ![kind].step_ticks = @ + 1]

AfterWorldTick(h) ==
    [k \in Kinds |->
        [h[k] EXCEPT !.one_age = IF @ >= 0 /\ @ < MaxAge /\ h[k].destroys = 0
                                 THEN @ + 1 ELSE @,
                     !.step_ticks = 0]]

AfterDestroy(h, kind) ==
    [h EXCEPT ![kind].destroys = @ + 1, ![kind].destroyed_at = h[kind].one_age]

RECURSIVE SpawnedAll(_, _)
SpawnedAll(a, list) ==
    IF list = <<>> THEN a
    ELSE SpawnedAll(Spawned(a, Head(list).actor_list), Tail(list))

Parked(kind, r) ==
    IF r = "parked_inside"
    THEN At(Centre(init(kind, None).trigger_points), 0)
    ELSE EgoAtStart

InitDriver ==
    /\ route \in {"live", "parked_inside", "parked_outside"}
    /\ \/ /\ driver = "start_car"
          /\ scenarios = [i \in 1..Len(Roster) |-> init(Roster[i], None)]
          /\ scenario_timers = [i \in 1..Len(Roster) |-> args_timer]
          /\ index = 1
          /\ pc = "for"
          /\ ego = Parked(Roster[1], route)
       \/ /\ driver \in Kinds
          /\ scenarios = <<>>
          /\ scenario_timers = <<main_scenario_timer(driver)>>
          /\ index = 1
          /\ pc = "loop"
          /\ ego = Parked(driver, route)
    /\ scn = init("BoyFootball", None)
    /\ actors = SpawnedAll(ActorsAtStart, scenarios)
    /\ ret = -1
    /\ ctl = <<>>
    /\ msg = <<>>
    /\ trig_calls = 0
    /\ op = "init"
    /\ stalls = 0
    /\ ones = [k \in Kinds |-> 0]
    /\ elapsed = 0
    /\ batches = <<>>
    /\ hist = HistAtStart
    /\ call = NoCall
    /\ caller_points = None

\* sucess = scenario.tick(ego_vehicle_actor) on entry i of scenarios, the
\* watchdog timer of the entry being updated as the loop does it.
TickEntry(i, loop) ==
    \E w \in WorldsNow(scenarios[i], actors) :
        LET s == scenarios[i]
            r == tick(s, w[1], w[2])
            t == IF loop = "start_car"
                 THEN start_car_watchdog(scenario_timers[i], r.s.triggered,
                                         r.ret)
                 ELSE main_watchdog(scenario_timers[i], r.ret)
            stall == route = "live" /\ ~Progress(s, actors, r)
                                   /\ t # scenario_timers[i]
        IN /\ WithinBounds(r.s)
           /\ stall => stalls < MaxStall
           /\ scenarios' = [scenarios EXCEPT ![i] = r.s]
           /\ scenario_timers' = [scenario_timers EXCEPT ![i] = t]
           /\ stalls' = IF stall THEN stalls + 1 ELSE stalls
           /\ ones' = [ones EXCEPT ![s.kind] = @ + r.ret]
           /\ actors' = r.actors
           /\ ret' = r.ret
           /\ ctl' = r.ctl
           /\ msg' = r.msg
           /\ trig_calls' = IF r.trig THEN trig_calls + 1 ELSE trig_calls
           /\ op' = "tick"
           /\ hist' = IF loop = "start_car"
                      THEN AfterTick(hist, s.kind, r.ret)
                      ELSE AfterWorldTick(AfterTick(hist, s.kind, r.ret))
           /\ UNCHANGED <<elapsed, batches>>

\* scenario.destroy(client) on entry i of scenarios.
DestroyEntry(i) ==
    LET d == destroy(scenarios[i]) IN
    /\ batches' = Append(batches, d)
    /\ actors' = [actors EXCEPT !.alive = @ \ Range(d.batch)]
    /\ hist' = AfterDestroy(hist, scenarios[i].kind)
    /\ op' = "destroy"
    /\ UNCHANGED <<ret, ctl, msg, trig_calls, stalls, ones, elapsed>>

\* start_car.py: one pass through the body of
\* "for index, scenario in enumerate(scenarios)".
StartCarFor ==
    /\ driver = "start_car"
    /\ pc = "for"
    /\ index <= Len(scenarios)
    /\ IF scenario_timers[index] > 0
       THEN TickEntry(index, "start_car")
       ELSE /\ DestroyEntry(index)
            /\ scenarios' = Pop(scenarios, index)
            /\ scenario_timers' = Pop(scenario_timers, index)
    /\ index' = index + 1
    /\ UNCHANGED <<scn, ego, pc, route, driver, call,
                   caller_points>>

\* start_car.py: the for loop has run off the end of the list; world.tick()
\* and the next round of "while True" ("scenarios is None" never holds).
StartCarWorldTick ==
    /\ driver = "start_car"
    /\ pc = "for"
    /\ index > Len(scenarios)
    /\ ego' \in EgosNext(scenarios, actors)
    /\ index' = 1
    /\ op' = "world"
    /\ hist' = AfterWorldTick(hist)
    /\ UNCHANGED <<scn, actors, ret, ctl, msg, trig_calls, pc, route, driver,
                   scenarios, scenario_timers, stalls, ones, elapsed, batches,
                   call,
                   caller_points>>

\* main() of a scenario file: one round of "while True".
MainLoop ==
    /\ driver \in Kinds
    /\ pc = "loop"
    /\ IF scenarios = <<>>
       THEN /\ scenarios' = <<init(driver, None)>>
            /\ op' = "init"
            /\ pc' = "loop"
            /\ actors' = Spawned(actors, init(driver, None).actor_list)
            /\ hist' = AfterWorldTick(hist)
            /\ UNCHANGED <<scenario_timers, ret, ctl, msg, trig_calls, stalls,
                           ones, elapsed, batches>>
       ELSE IF scenario_timers[1] > 0
       THEN /\ TickEntry(1, "main")
            /\ pc' = "loop"
       ELSE /\ DestroyEntry(1)
            /\ scenarios' = <<>>
            /\ scenario_timers' = <<scenario_timer>>
            /\ pc' = "done"
    /\ IF pc' = "done" THEN ego' = ego ELSE ego' \in EgosNext(scenarios', actors')
    /\ UNCHANGED <<scn, route, driver, index, call,
                   caller_points>>

\* The simulator invokes the collision callback of a running scenario.
DriverSensorCallback ==
    /\ route = "live"
    /\ \E i \in 1..Len(scenarios) :
          /\ scenarios[i].kind \in SensorKinds
          /\ \E other_role \in {"ego", "other"} :
                scenarios' = [scenarios EXCEPT
                                 ![i] = sensor_callback(@, other_role)]
    /\ op' = "callback"
    /\ UNCHANGED <<scn, ego, actors, ret, ctl, msg, trig_calls, pc, route,
                   driver, scenario_timers, index, stalls, ones, elapsed,
                   batches, hist, call,
                   caller_points>>

NextDriver ==
    StartCarFor \/ StartCarWorldTick \/ MainLoop \/ DriverSensorCallback

SpecDriver == InitDriver /\ [][NextDriver]_vars

\* C1: under either loop a scenario's tick returns 1 at most once in its
\* lifetime, every other call returns 0, and the call on which the scenario
\* triggers returns 0.
C1_ReturnsOneOnce ==
    /\ [](\A k \in Kinds : ones[k] <= 1)
    /\ [][op' = "tick" =>
            /\ ret' \in {0, 1}
            /\ trig_calls' # trig_calls => ret' = 0]_vars

\* start_car has run both scenarios of its list to their end, each tick
\* having returned 1 once, and has removed them from the list.
C1_Witness ==
    /\ driver = "start_car"
    /\ scenarios = <<>>
    /\ ones["BoyFootball"] = 1
    /\ ones["StaticCarCrash_1"] = 1
    /\ op = "world"

----------------------------------------------------------------------------
(* The final countdown of the timer-gated classes, followed tick by tick    *)
(* until tick returns 1                                                     *)

\* The classes whose timer starts at its constructed value when the final
\* countdown begins.
CountdownKinds == {"StaticCarCrash_1", "StaticEMSObstacle", "FallenTree",
                  "BusStopNearPlayground", "DangerousExcavator"}

\* The tick call on object s in the world (e, o) goes to the branch that
\* tests self.timer > 0 for the final countdown.
Counting(s, e, o) ==
    /\ s.triggered
    /\ CASE s.kind = "StaticCarCrash_1" ->
                is_inside_bounding_box(e.loc, s.trigger_area[1], s.trigger_area[2])
         [] s.kind = "StaticEMSObstacle" ->
                /\ ~s.collision_detected
                /\ is_inside_bounding_box(e.loc, s.trigger_area[1], s.trigger_area[2])
         [] s.kind = "FallenTree" ->
                /\ ~(o.ped[1] = 0 /\ o.ped[2] = 0)
                /\ ~(o.cop[1] = 0 /\ o.cop[2] = 0)
                /\ is_inside_bounding_box(e.loc, s.trigger_points[1], s.trigger_points[2])
         [] s.kind = "BusStopNearPlayground" ->
                /\ ~s.collision_detected
                /\ \A i \in 1..3 : s.checkpoint[i]
                /\ ~(s.checkpoint[4] = FALSE
                       /\ e.loc[2] < -950 + get_vehicle_speed(e))
         [] s.kind = "DangerousExcavator" ->
                /\ s.checkpoint[1]
                /\ o.actors.top_yaw >= 260
         [] OTHER -> FALSE

\* One tick call of a loop that stops calling once tick has returned 1;
\* elapsed counts the calls that went to the countdown branch.
CountdownTick ==
    /\ ret # 1
    /\ \E w \in Worlds(scn, actors) :
          LET r == tick(scn, w[1], w[2]) IN
          /\ WithinBounds(r.s)
          /\ scn' = r.s
          /\ ego' = w[1]
          /\ actors' = r.actors
          /\ ret' = r.ret
          /\ ctl' = r.ctl
          /\ msg' = r.msg
          /\ trig_calls' = IF r.trig THEN trig_calls + 1 ELSE trig_calls
          /\ elapsed' = IF Counting(scn, w[1], w[2]) THEN elapsed + 1
                                                      ELSE elapsed
    /\ op' = "tick"
    /\ UNCHANGED <<pc, route, driver, scenarios, scenario_timers, index,
                   stalls, ones, batches, hist, call,
                   caller_points>>

NextCountdown == CountdownTick \/ SensorCallback

SpecCountdown == Init /\ [][NextCountdown]_vars

\* C11 as stated: a timer-gated scenario returns 1 on the tick call number
\* timer_initial_value of its countdown.
C11_CompletesInTimerTicks ==
    [][(scn.kind \in CountdownKinds /\ elapsed' = elapsed + 1 /\ ret' = 1)
          => elapsed' = init(scn.kind, None).timer]_vars

\* C11: with N the value the constructor gives the timer, each of the first
\* N tick calls that reach the countdown branch takes one off the timer and
\* returns 0, and call number N + 1, which finds the timer at 0, returns 1;
\* no other call changes the timer.
C11_CompletesOneTickLater ==
    [][scn.kind \in CountdownKinds =>
          LET N == init(scn.kind, None).timer IN
          /\ elapsed' = elapsed + 1 =>
                /\ elapsed' <= N + 1
                /\ ret' = 1 <=> elapsed' = N + 1
                /\ ret' = 0 => scn'.timer = N - elapsed'
                /\ ret' = 1 => scn'.timer = 0 /\ scn.timer = 0
          /\ elapsed' = elapsed => scn'.timer = scn.timer]_vars

\* BusStopNearPlayground on call 201 of its countdown.
C11_Witness ==
    /\ scn.kind = "BusStopNearPlayground"
    /\ op = "tick"
    /\ \A i \in 1..4 : scn.checkpoint[i]
    /\ elapsed = BusStopNearPlayground_timer + 1
    /\ ret = 1

----------------------------------------------------------------------------
(* The presence check of StaticCarCrash_1, StaticEMSObstacle and FallenTree *)

TimedPresenceKinds == PresenceKinds \cup {"FallenTree"}

\* The rectangle the presence check reads: FallenTree keeps no trigger_area.
PresenceArea(s) ==
    IF s.kind = "FallenTree" THEN s.trigger_points ELSE s.trigger_area

StillInside(e, s) ==
    is_inside_bounding_box(e.loc, PresenceArea(s)[1], PresenceArea(s)[2])

\* C12: a triggered tick of a presence scenario with no collision and no lost
\* actor returns 0 while the ego vehicle is inside and the timer is above 0,
\* returns 1 (pass) whenever the ego vehicle is outside, and returns 1 (fail)
\* only when the timer is at 0 with the ego vehicle still inside.
C12_PresenceOutcome ==
    [][(/\ scn.kind \in TimedPresenceKinds
        /\ scn.triggered
        /\ op' = "tick"
        /\ ~scn.collision_detected
        /\ msg' # <<"fail: pedestrian killed">>)
         => /\ (StillInside(ego', scn) /\ scn.timer > 0)
                  => ret' = 0 /\ scn'.timer = scn.timer - 1
            /\ ~StillInside(ego', scn)
                  => ret' = 1 /\ msg' = <<"pass: obstacle avoided">>
            /\ msg' = <<"fail: timeout">>
                  => StillInside(ego', scn) /\ scn.timer = 0]_vars

----------------------------------------------------------------------------
(* The collision flag *)

----------------------------------------------------------------------------
(* The pedestrian that is no longer in the world *)

PedestrianKinds == {"BoyFootball", "FallenTree", "TextureChange"}

\* The actors whose location the class compares with the origin.
Lost(kind, o) ==
    \/ o.ped = <<0, 0>>
    \/ kind = "FallenTree" /\ o.cop = <<0, 0>>

\* C15: in a triggered scenario that watches a pedestrian, a tick that reads
\* the watched actor at x = 0, y = 0 returns 1 with the failure message and
\* leaves the object as it was: no checkpoint, no timer, no control command.
C15_LostActorFailsFirst ==
    (scn.kind \in PedestrianKinds /\ scn.triggered)
        => \A w \in Worlds(scn, actors) :
              Lost(scn.kind, w[2])
                 => LET r == tick(scn, w[1], w[2]) IN
                    /\ r.ret = 1
                    /\ r.msg = <<"fail: pedestrian killed">>
                    /\ r.s = scn
                    /\ r.ctl = <<>>

\* FallenTree with its countdown under way when the pedestrian is lost.
C15_Witness ==
    /\ scn.kind = "FallenTree"
    /\ op = "tick"
    /\ scn.timer < FallenTree_timer
    /\ ret = 1
    /\ msg = <<"fail: pedestrian killed">>

\* C16: a BoyFootball tick reports the pass only when the scenario is
\* triggered, the pedestrian is not at x = 0, y = 0, the checkpoint is already
\* true and the pedestrian is beyond y = 140; a tick that returns 1 reports
\* exactly one of pass and fail, and the checkpoint is true only once
\* triggered.
C16_PassOnlyAfterReturn ==
    scn.kind = "BoyFootball"
        => /\ scn.checkpoint[1] => scn.triggered
           /\ \A w \in Worlds(scn, actors) :
                 LET r == tick(scn, w[1], w[2]) IN
                 /\ r.ret = 1 <=> Len(r.msg) = 1
                 /\ r.ret = 0 <=> r.msg = <<>>
                 /\ r.msg = <<"pass: pedestrian crossed">>
                       => /\ scn.triggered
                          /\ ~Lost(scn.kind, w[2])
                          /\ scn.checkpoint[1]
                          /\ w[2].ped[2] > 1400

\* The pedestrian is back across the road and the pass has been reported.
C16_Witness ==
    /\ scn.kind = "BoyFootball"
    /\ op = "tick"
    /\ scn.checkpoint = <<TRUE>>
    /\ ret = 1
    /\ msg = <<"pass: pedestrian crossed">>

----------------------------------------------------------------------------
(* destroy *)

\* The number of DestroyActor commands actor a has been sent so far.
RECURSIVE Commands(_, _)
Commands(a, calls) ==
    IF calls = <<>> THEN 0
    ELSE Cardinality({i \in DOMAIN Head(calls).batch : Head(calls).batch[i] = a})
         + Commands(a, Tail(calls))

\* C17: over two destroy calls every owned actor is sent one destroy command,
\* and the second call stops no sensor the first one has destroyed.
C17_DestroyTwiceReleasesOnce ==
    Len(batches) = 2
        => /\ \A a \in Range(scn.actor_list) : Commands(a, batches) = 1
           /\ Range(batches[2].stops) \cap Range(batches[1].batch) = {}

\* C18: in every reachable state actor_list names exactly the actors of the
\* scenario that are alive, each of them once, so that a destroy call in any
\* state sends a command for every live actor and for no destroyed one.
C18_ActorListIsLiveActors ==
    /\ Range(scn.actor_list) = actors.alive
    /\ \A i, j \in DOMAIN scn.actor_list :
          scn.actor_list[i] = scn.actor_list[j] => i = j
    /\ Range(destroy(scn).batch) = actors.alive

----------------------------------------------------------------------------
(* The running loops: what follows a tick that returned 1 *)

\* C19: under start_car's loop and under the main loop of a scenario file,
\* no tick call is made on a scenario after one of its ticks has returned 1
\* or after its destroy, and the destroy call comes in the loop iteration
\* that follows the one in which tick returned 1.
C19_DestroyNextIteration ==
    \A k \in Kinds :
        /\ hist[k].late = 0
        /\ hist[k].destroys = 0 => hist[k].one_age <= 1
        /\ hist[k].destroyed_at \in {-2, -1, 1}

----------------------------------------------------------------------------
(* The watchdog of the running loops *)

\* The loops with the ego vehicle standing still, inside the trigger area of
\* the (first) scenario or away from every area, so that no tick returns 1
\* for anything the vehicle does.  Both loops run on: no tick call and no
\* world step is put off for ever.
InitWatchdog == InitDriver /\ route # "live"

NextWatchdog == StartCarFor \/ StartCarWorldTick \/ MainLoop

SpecWatchdog ==
    InitWatchdog /\ [][NextWatchdog]_vars /\ WF_vars(NextWatchdog)

\* The classes the loop has constructed.
Constructed ==
    IF driver = "start_car" THEN Range(Roster) ELSE {driver}

\* C20 as stated: with the ego vehicle standing still, inside or outside the
\* trigger area, every scenario of the loop is eventually destroyed.
C20_EventuallyDestroyed ==
    <>(\A k \in Constructed : hist[k].destroys = 1)

\* C20: the main loop of a scenario file takes one off its watchdog on every
\* tick call that returns 0, triggered or not, starting from the file's
\* scenario_timer, and destroys the scenario when the watchdog is at 0, which
\* with the ego vehicle standing still does happen.  start_car takes one off
\* only on tick calls that leave the scenario triggered, from --timer: a
\* scenario the ego vehicle stands in is eventually destroyed, one that is
\* never triggered keeps its watchdog at --timer and is never destroyed.
C20_WatchdogCountsWhileTriggered ==
    /\ [][(driver \in Kinds /\ op' = "tick")
            => scenario_timers'[1] =
                  IF ret' = 1 THEN 0 ELSE scenario_timers[1] - 1]_vars
    /\ [][(driver \in Kinds /\ op' = "destroy")
            => scenario_timers[1] = 0]_vars
    /\ [](driver \in Kinds /\ hist[driver].destroys = 0
            => scenario_timers[1] \in 0..main_scenario_timer(driver))
    /\ <>(driver \in Kinds => hist[driver].destroys = 1)
    /\ [][(driver = "start_car" /\ op' = "tick")
            => scenario_timers'[index] =
                  IF ~scenarios'[index].triggered THEN scenario_timers[index]
                  ELSE IF ret' = 1 THEN 0 ELSE scenario_timers[index] - 1]_vars
    /\ [][(driver = "start_car" /\ op' = "destroy")
            => scenarios[index].triggered /\ scenario_timers[index] = 0]_vars
    /\ [](driver = "start_car"
            => \A i \in 1..Len(scenarios) :
                  /\ scenario_timers[i] \in 0..args_timer
                  /\ ~scenarios[i].triggered => scenario_timers[i] = args_timer)
    /\ <>((driver = "start_car" /\ route = "parked_inside")
            => hist[Roster[1]].destroys = 1)
    /\ []((driver = "start_car" /\ route = "parked_outside")
            => \A k \in Kinds : hist[k].destroys = 0)

\* The main loop of FallenTree's file has destroyed a scenario that was never
\* triggered and never returned 1, after all the tick calls of its watchdog.
C20_Witness ==
    /\ driver = "FallenTree"
    /\ route = "parked_outside"
    /\ pc = "done"
    /\ hist["FallenTree"].destroyed_at = -1
    /\ ones["FallenTree"] = 0
    /\ trig_calls = 0

----------------------------------------------------------------------------
(* start_car: the tick calls of one world step *)

\* C21: when start_car's for loop has run through the list, every scenario
\* still in the list with a positive watchdog timer has had its tick called
\* once since the latest world step, and none more than once.
C21_EveryScenarioTickedEachStep ==
    (driver = "start_car" /\ pc = "for")
        => /\ \A k \in Kinds : hist[k].step_ticks <= 1
           /\ index > Len(scenarios)
                 => \A i \in 1..Len(scenarios) :
                       scenario_timers[i] > 0
                          => hist[scenarios[i].kind].step_ticks = 1

----------------------------------------------------------------------------
(* The traffic light *)

LightKinds == {"StaticCarCrash_2", "CarWithItem", "ShoppingcartRollingDown"}

\* C23: over any sequence of tick calls a scenario calls set_state on a
\* traffic light at most once.
C23_LightSetAtMostOnce ==
    scn.kind \in LightKinds => actors.light_sets <= 1

----------------------------------------------------------------------------
(* Two scenarios of one loop, ticked in either order *)

\* The pairs of classes run together.
Pairs == { <<"StaticCarCrash_2", "ShoppingcartRollingDown">>,
           <<"StaticCarCrash_2", "CarWithItem">>,
           <<"BoyFootball", "StaticCarCrash_1">> }

\* Tick calls made on the pair.
MaxPairTicks == 4

InitPair ==
    /\ \E p \in Pairs : scenarios = <<init(p[1], None), init(p[2], None)>>
    /\ scenario_timers = <<args_timer, args_timer>>
    /\ driver = "start_car"
    /\ route = "live"
    /\ pc = "for"
    /\ index = 1
    /\ ego = EgoAtStart
    /\ scn = init("BoyFootball", None)
    /\ actors = SpawnedAll(ActorsAtStart, scenarios)
    /\ ret = -1
    /\ ctl = <<>>
    /\ msg = <<>>
    /\ trig_calls = 0
    /\ op = "init"
    /\ stalls = 0
    /\ ones = [k \in Kinds |-> 0]
    /\ elapsed = 0
    /\ batches = <<>>
    /\ hist = HistAtStart
    /\ call = NoCall
    /\ caller_points = None

\* sucess = scenario.tick(ego_vehicle_actor, ...) on one scenario of the
\* pair, in no fixed order.
PairTick ==
    /\ elapsed < MaxPairTicks
    /\ \E i \in 1..2 :
       \E w \in Worlds(scenarios[i], actors) :
          LET r == tick(scenarios[i], w[1], w[2]) IN
          /\ WithinBounds(r.s)
          /\ scenarios' = [scenarios EXCEPT ![i] = r.s]
          /\ index' = i
          /\ ego' = w[1]
          /\ actors' = r.actors
          /\ ret' = r.ret
          /\ ctl' = r.ctl
          /\ msg' = r.msg
          /\ trig_calls' = IF r.trig THEN trig_calls + 1 ELSE trig_calls
    /\ elapsed' = elapsed + 1
    /\ op' = "tick"
    /\ UNCHANGED <<scn, pc, route, driver, scenario_timers, stalls, ones,
                   batches, hist, call,
                   caller_points>>

NextPair == PairTick

SpecPair == InitPair /\ [][NextPair]_vars

\* tick on scenario a and then on scenario b, in the world of reading o: the
\* second call finds the world as the first one left it.
TickBoth(a, b, e, o) ==
    LET first == tick(a, e, o)
        second == tick(b, e, [o EXCEPT !.actors = first.actors])
    IN [first |-> [s |-> first.s, ret |-> first.ret],
        second |-> [s |-> second.s, ret |-> second.ret]]

\* C22: for the two scenarios of the loop and every world, ticking the first
\* and then the second leaves both objects and both return values as ticking
\* the second and then the first does.
C22_TickOrderIrrelevant ==
    \A w \in Worlds(scenarios[1], actors) \cup Worlds(scenarios[2], actors) :
        LET ab == TickBoth(scenarios[1], scenarios[2], w[1], w[2])
            ba == TickBoth(scenarios[2], scenarios[1], w[1], w[2])
        IN ab.first = ba.second /\ ab.second = ba.first

----------------------------------------------------------------------------
(* checks.py: the helpers of the pursuit, each called once on its own.

   Locations are <<x, y, z>> in tenths of a metre, velocities <<x, y, z>> in
   hundredths of a metre per second.  A speed the helpers compute is kept
   exact, as the record [num, den, sq] that stands for the real number
   (num / den) * sqrt(sq) hundredths of a metre per second: num and den are
   the two distances of calculate_required_speed and sq is the squared norm
   of the velocity of the car. *)

\* Coordinates of the locations drawn: whole metres up to MaxCoord.
MaxCoord == 2

\* Components of the velocities drawn: steps of 0.04 m/s up to MaxVel steps.
MaxVel == 2

Coords == { 10 * k : k \in -MaxCoord..MaxCoord }

Locations == { <<x, y, 0>> : x \in Coords, y \in Coords }

\* Slower than 0.1 m/s (4, 4, 0), (8, 0, 0); faster (8, 8, 0), (-8, 8, 8).
Velocities == { <<4 * i, 4 * j, z>> : i \in -MaxVel..MaxVel,
                                     j \in -MaxVel..MaxVel, z \in {0, 8} }

\* carla.Transform.get_forward_vector() of a level vehicle along an axis.
ForwardVectors == { <<1, 0, 0>>, <<-1, 0, 0>>, <<0, 1, 0>>, <<0, -1, 0>> }

\* Directions of the WalkerControl objects the scenarios apply, in tenths:
\* spawn_ball_boy.py (0, -1, 0) and (0, 1, 0), the kids of the bus stop
\* (-1, 0, 0.1).
Directions == { <<0, -10, 0>>, <<0, 10, 0>>, <<-10, 0, 1>> }

\* Speed of the control a walker had before the call: 3.5 m/s.
WalkerSpeeds == {350}

\* The walker stands in one quadrant: the helpers use its offset from the
\* car.
WalkerLocations == { q \in Locations : q[1] >= 0 /\ q[2] >= 0 }

SumSq(v) == v[1] * v[1] + v[2] * v[2] + v[3] * v[3]

\* The number 0.1 of "car_speed < 0.1" and "required_speed < 0.1", squared,
\* in hundredths of a metre per second.
TenthSquared == 100

Zero == [num |-> 0, den |-> 1, sq |-> 1]

Tenth == [num |-> 10, den |-> 1, sq |-> 1]

\* q < 0.1, both sides squared: q is not negative.
BelowTenth(q) == q.num * q.num * q.sq < TenthSquared * q.den * q.den

\* calculate_required_speed as it would be if it took the x axis for the
\* travel axis of every walker.
calculate_required_speed_along_x(car_location, car_velocity, pedestrian_location, pedestrian_direction) ==
    IF SumSq(car_velocity) < TenthSquared
    THEN [raised |-> FALSE, value |-> Zero]
    ELSE IF car_location[2] = pedestrian_location[2]
    THEN [raised |-> TRUE, value |-> Zero]
    ELSE [raised |-> FALSE,
          value |-> [num |-> Abs(car_location[1] - pedestrian_location[1]),
                     den |-> Abs(car_location[2] - pedestrian_location[2]),
                     sq |-> SumSq(car_velocity)]]

\* calculate_required_speed as it would be without the early return for a
\* car slower than 0.1.
calculate_required_speed_unguarded(car_location, car_velocity, pedestrian_location, pedestrian_direction) ==
    LET along_x == pedestrian_direction[1] # 0
        distance_to_pedestrian_path ==
            IF along_x THEN Abs(car_location[2] - pedestrian_location[2])
                       ELSE Abs(car_location[1] - pedestrian_location[1])
        distance_to_intersect ==
            IF along_x THEN Abs(car_location[1] - pedestrian_location[1])
                       ELSE Abs(car_location[2] - pedestrian_location[2])
    IN IF SumSq(car_velocity) = 0 \/ distance_to_pedestrian_path = 0
       THEN [raised |-> TRUE, value |-> Zero]
       ELSE [raised |-> FALSE,
             value |-> [num |-> distance_to_intersect,
                        den |-> distance_to_pedestrian_path,
                        sq |-> SumSq(car_velocity)]]

\* checks.py: calculate_required_speed.  The division by a time_to_intersect
\* of 0.0 raises ZeroDivisionError; time_to_intersect is 0.0 exactly when
\* distance_to_pedestrian_path is.
calculate_required_speed(car_location, car_velocity, pedestrian_location, pedestrian_direction) ==
    LET car_speed_squared == SumSq(car_velocity)
        along_x == pedestrian_direction[1] # 0
        distance_to_pedestrian_path ==
            IF along_x THEN Abs(car_location[2] - pedestrian_location[2])
                       ELSE Abs(car_location[1] - pedestrian_location[1])
        distance_to_intersect ==
            IF along_x THEN Abs(car_location[1] - pedestrian_location[1])
                       ELSE Abs(car_location[2] - pedestrian_location[2])
    IN IF car_speed_squared < TenthSquared
       THEN [raised |-> FALSE, value |-> Zero]
       ELSE IF distance_to_pedestrian_path = 0
       THEN [raised |-> TRUE, value |-> Zero]
       ELSE [raised |-> FALSE,
             value |-> [num |-> distance_to_intersect,
                        den |-> distance_to_pedestrian_path,
                        sq |-> car_speed_squared]]

\* adjust_car_location: bumper_offset=2.0
bumper_offset == 20

\* The Python objects of one call of adjust_pedestrian_velocity are the cells
\* of a heap: "ego" and "pedestrian" are the actors as the simulator holds
\* them, and every other cell is an object the call itself made.  A variable
\* of the code is the name of the cell it refers to.

\* get_transform as it would be if it handed out the transform the simulator
\* itself holds for the actor.
get_transform_of_simulator(heap, actor, cell) ==
    [heap |-> heap, ref |-> actor]

\* checks.py: ego_vehicle.get_transform().  carla.Actor.get_transform
\* returns a new Transform object, a copy of the one the actor has.
get_transform(heap, actor, cell) ==
    [heap |-> (cell :> [location |-> heap[actor].location,
                        forward |-> heap[actor].forward]) @@ heap,
     ref |-> cell]

\* checks.py: adjust_car_location.  adjusted_location is another name of the
\* object car_location: the three += write into that object.
adjust_car_location(heap, car_location, car_transform) ==
    LET forward_vector == heap[car_transform].forward
    IN [heap EXCEPT ![car_location].location =
            <<@[1] + forward_vector[1] * bumper_offset,
              @[2] + forward_vector[2] * bumper_offset,
              @[3] + forward_vector[3] * bumper_offset>>]

\* adjust_pedestrian_velocity as it would be if it applied the required
\* speed as computed, without the lower limit of 0.1.
adjust_pedestrian_velocity_unclamped(heap) ==
    LET car_transform == get_transform(heap, "ego", "car_transform")
        car_location == get_transform(car_transform.heap, "ego",
                                      "car_location")
        adjusted == adjust_car_location(car_location.heap, car_location.ref,
                                        car_transform.ref)
        required_speed ==
            calculate_required_speed(adjusted[car_location.ref].location,
                                     heap["ego"].velocity,
                                     heap["pedestrian"].location,
                                     heap["pedestrian"].control.direction)
    IN [heap |-> IF required_speed.raised THEN adjusted
                 ELSE [adjusted EXCEPT !["pedestrian"].control.speed =
                                           required_speed.value],
        raised |-> required_speed.raised,
        adjusted_car_location |-> adjusted[car_location.ref].location]

\* checks.py: adjust_pedestrian_velocity.  car_transform and car_location
\* come from two calls of get_transform; the velocity, the location of the
\* walker and its control are read; the control goes back with its direction
\* as it was and the new speed.  A ZeroDivisionError of
\* calculate_required_speed leaves the function before apply_control.
adjust_pedestrian_velocity(heap) ==
    LET car_transform == get_transform(heap, "ego", "car_transform")
        car_location == get_transform(car_transform.heap, "ego",
                                      "car_location")
        car_velocity == car_location.heap["ego"].velocity
        pedestrian_location == car_location.heap["pedestrian"].location
        walker_control == car_location.heap["pedestrian"].control
        pedestrian_direction == walker_control.direction
        adjusted == adjust_car_location(car_location.heap, car_location.ref,
                                        car_transform.ref)
        required_speed ==
            calculate_required_speed(adjusted[car_location.ref].location,
                                     car_velocity, pedestrian_location,
                                     pedestrian_direction)
        speed == IF BelowTenth(required_speed.value) THEN Tenth
                 ELSE required_speed.value
    IN [heap |-> IF required_speed.raised THEN adjusted
                 ELSE [adjusted EXCEPT !["pedestrian"].control =
                           [walker_control EXCEPT !.speed = speed]],
        raised |-> required_speed.raised,
        adjusted_car_location |-> adjusted[car_location.ref].location]

\* The two actors as the simulator holds them when the call begins.
Heaps ==
    { [ego |-> [location |-> l, forward |-> f, velocity |-> v],
       pedestrian |-> [location |-> p,
                       control |-> [direction |-> d,
                                    speed |-> [num |-> w, den |-> 1,
                                               sq |-> 1]]]] :
        l \in Locations, f \in ForwardVectors,
        v \in { u \in Velocities : u[3] = 0 }, p \in WalkerLocations,
        d \in Directions, w \in WalkerSpeeds }

\* The helpers are called from the state the scenario objects are built in.
InitChecks == Init /\ scn.kind = "BoyFootball"

CallIsInside ==
    /\ call.fn = "none"
    /\ \E p \in Locations, a \in Locations, b \in Locations :
           /\ call' = [fn |-> "is_inside_bounding_box",
                       vehicle_location |-> p, bbox_min |-> a, bbox_max |-> b,
                       result |-> is_inside_bounding_box(p, a, b)]
           /\ UNCHANGED <<scn, ego, actors, ret, ctl, msg, trig_calls, op, pc,
                          route, driver, scenarios, scenario_timers, index,
                          stalls, ones, elapsed, batches, hist,
                          caller_points>>

CallRequiredSpeed ==
    /\ call.fn = "none"
    /\ \E l \in Locations, v \in Velocities, p \in WalkerLocations,
          d \in Directions :
           /\ call' = [fn |-> "calculate_required_speed",
                       car_location |-> l, car_velocity |-> v,
                       pedestrian_location |-> p, pedestrian_direction |-> d,
                       result |-> calculate_required_speed(l, v, p, d)]
           /\ UNCHANGED <<scn, ego, actors, ret, ctl, msg, trig_calls, op, pc,
                          route, driver, scenarios, scenario_timers, index,
                          stalls, ones, elapsed, batches, hist,
                          caller_points>>

CallAdjust ==
    /\ call.fn = "none"
    /\ \E h \in Heaps :
           LET r == adjust_pedestrian_velocity(h) IN
           /\ call' = [fn |-> "adjust_pedestrian_velocity",
                       ego_before |-> h.ego,
                       pedestrian_before |-> h.pedestrian,
                       ego_after |-> r.heap.ego,
                       pedestrian_after |-> r.heap.pedestrian,
                       adjusted_car_location |-> r.adjusted_car_location,
                       raised |-> r.raised]
           /\ UNCHANGED <<scn, ego, actors, ret, ctl, msg, trig_calls, op, pc,
                          route, driver, scenarios, scenario_timers, index,
                          stalls, ones, elapsed, batches, hist,
                          caller_points>>

NextChecks == CallIsInside \/ CallRequiredSpeed \/ CallAdjust

SpecChecks == InitChecks /\ [][NextChecks]_vars

\* C24: a call of adjust_pedestrian_velocity, the one helper a tick hands the
\* ego vehicle to that writes into an object, leaves the ego vehicle as it
\* was: its location, its heading and its velocity after the call are those
\* before it, also when the location projected to the bumper differs.
C24_EgoUnchanged ==
    call.fn = "adjust_pedestrian_velocity"
        => call.ego_after = call.ego_before

C24_Witness ==
    /\ call.fn = "adjust_pedestrian_velocity"
    /\ ~call.raised
    /\ call.adjusted_car_location # call.ego_before.location
    /\ call.pedestrian_after # call.pedestrian_before
    /\ call.ego_after = call.ego_before

\* C25: is_inside_bounding_box is true exactly when the point lies between
\* the two corners on the x axis and on the y axis, whichever corner is the
\* lower one; it gives the same answer with the corners exchanged; and on an
\* axis where the two corners agree it is true only for a point that has
\* that coordinate.
C25_InsideExactlyBetweenCorners ==
    call.fn = "is_inside_bounding_box"
        => LET p == call.vehicle_location
               a == call.bbox_min
               b == call.bbox_max
               Between(i) == \/ a[i] <= p[i] /\ p[i] <= b[i]
                             \/ b[i] <= p[i] /\ p[i] <= a[i]
           IN /\ call.result <=> (Between(1) /\ Between(2))
              /\ is_inside_bounding_box(p, b, a) = call.result
              /\ \A i \in {1, 2} : (a[i] = b[i] /\ call.result) => p[i] = a[i]

C25_Witness ==
    /\ call.fn = "is_inside_bounding_box"
    /\ call.result
    /\ call.bbox_min[1] > call.bbox_max[1]
    /\ call.bbox_min[2] = call.bbox_max[2]

\* C26: calculate_required_speed returns 0 whenever the norm of the velocity
\* of the car is below 0.1, wherever the car and the walker are and
\* whichever way the walker goes.
C26_ZeroForSlowCar ==
    (call.fn = "calculate_required_speed"
        /\ SumSq(call.car_velocity) < TenthSquared)
        => call.result = [raised |-> FALSE, value |-> Zero]

C26_Witness ==
    /\ call.fn = "calculate_required_speed"
    /\ SumSq(call.car_velocity) < TenthSquared
    /\ SumSq(call.car_velocity) > 0
    /\ call.car_location[1] = call.pedestrian_location[1]
    /\ call.car_location[2] # call.pedestrian_location[2]
    /\ call.result.value = Zero

\* The required speed of the call of adjust_pedestrian_velocity, before the
\* lower limit.
RawRequiredSpeed ==
    calculate_required_speed(call.adjusted_car_location,
                             call.ego_before.velocity,
                             call.pedestrian_before.location,
                             call.pedestrian_before.control.direction)

\* C27: the speed adjust_pedestrian_velocity applies to the walker is never
\* below 0.1; it is exactly 0.1 when the required speed is below 0.1, as it
\* is for a car that stands; and the direction of the walker stays.
C27_AppliedSpeedAtLeastTenth ==
    (call.fn = "adjust_pedestrian_velocity" /\ ~call.raised)
        => /\ ~BelowTenth(call.pedestrian_after.control.speed)
           /\ BelowTenth(RawRequiredSpeed.value)
                 => call.pedestrian_after.control.speed = Tenth
           /\ call.pedestrian_after.control.direction
                 = call.pedestrian_before.control.direction
           /\ call.pedestrian_after.location = call.pedestrian_before.location

C27_Witness ==
    /\ call.fn = "adjust_pedestrian_velocity"
    /\ ~call.raised
    /\ SumSq(call.ego_before.velocity) = 0
    /\ call.pedestrian_after.control.speed = Tenth

\* C28: for a car of speed 0.1 or more that is off the path of the walker,
\* calculate_required_speed returns distance_to_intersect /
\* (distance_to_pedestrian_path / car_speed); the walker travels along x if
\* the x component of its direction is not 0 and along y otherwise, the
\* distance to the path is the offset across the travel axis and the
\* distance to the intersection the offset along it.
C28_RequiredSpeedFormula ==
    call.fn = "calculate_required_speed"
        => LET travel == IF call.pedestrian_direction[1] # 0 THEN 1 ELSE 2
               across == 3 - travel
               offset(i) == Abs(call.car_location[i]
                                    - call.pedestrian_location[i])
           IN (SumSq(call.car_velocity) >= TenthSquared /\ offset(across) # 0)
                => call.result = [raised |-> FALSE,
                                  value |-> [num |-> offset(travel),
                                             den |-> offset(across),
                                             sq |-> SumSq(call.car_velocity)]]

C28_Witness ==
    /\ call.fn = "calculate_required_speed"
    /\ call.pedestrian_direction[1] = 0
    /\ ~call.result.raised
    /\ call.result.value.num > call.result.value.den
    /\ call.result.value.sq >= TenthSquared

\* C29: for a car of speed 0.1 or more calculate_required_speed returns a
\* speed and does not raise, also when the car is on the path of the walker.
C29_NeverRaises ==
    (call.fn = "calculate_required_speed"
        /\ SumSq(call.car_velocity) >= TenthSquared)
        => ~call.result.raised

----------------------------------------------------------------------------
(* A caller that builds two scenarios of one class from one list,
   points = [...]; a = Class(world, ego, points); b = Class(world, ego,
   points), and then runs the first of them. *)

\* Classes built with a list of the caller.
SharedKinds == BeginningAreaKinds \cup {"BoyFootball", "StaticCarCrash_1"}

\* Tick calls on the first scenario.
MaxSharedTicks == 4

\* The list of the caller holds the corners the class has by default.
CallerPoints(kind) == init(kind, None).trigger_points

\* __init__: "self.trigger_points = trigger_points" binds the attribute to
\* the list object of the caller, and "self.trigger_area =
\* self.trigger_points" binds trigger_area to it as well.  The classes of
\* BeginningAreaKinds never bind trigger_area again, the others bind it to a
\* new list in tick.  The scenario s bound to the object, seen once the
\* object holds list:
SameList(s, list) ==
    [s EXCEPT !.trigger_points = list,
              !.trigger_area = IF s.kind \in BeginningAreaKinds THEN list
                               ELSE @]

InitShared ==
    /\ \E k \in SharedKinds :
          /\ caller_points = CallerPoints(k)
          /\ scn = init(k, CallerPoints(k))
          /\ scenarios = <<init(k, CallerPoints(k))>>
    /\ ego = EgoAtStart
    /\ actors = Spawned(ActorsAtStart, scn.actor_list)
    /\ ret = -1
    /\ ctl = <<>>
    /\ msg = <<>>
    /\ trig_calls = 0
    /\ op = "init"
    /\ pc = "tick"
    /\ route = "free"
    /\ driver = "none"
    /\ scenario_timers = <<>>
    /\ index = 0
    /\ stalls = 0
    /\ ones = [k \in Kinds |-> 0]
    /\ elapsed = 0
    /\ batches = <<>>
    /\ hist = HistAtStart
    /\ call = NoCall

\* One call a.tick(ego_vehicle): what it writes through self.trigger_points
\* or self.trigger_area[0] lands in the list of the caller, which b is bound
\* to as well.
SharedTick ==
    /\ elapsed < MaxSharedTicks
    /\ \E w \in Worlds(scn, actors) :
          LET r == tick(scn, w[1], w[2]) IN
          /\ WithinBounds(r.s)
          /\ scn' = r.s
          /\ caller_points' = r.s.trigger_points
          /\ scenarios' = <<SameList(scenarios[1], r.s.trigger_points)>>
          /\ ego' = w[1]
          /\ actors' = r.actors
          /\ ret' = r.ret
          /\ ctl' = r.ctl
          /\ msg' = r.msg
          /\ trig_calls' = IF r.trig THEN trig_calls + 1 ELSE trig_calls
    /\ elapsed' = elapsed + 1
    /\ op' = "tick"
    /\ UNCHANGED <<pc, route, driver, scenario_timers, index, stalls, ones,
                   batches, hist, call>>

NextShared == SharedTick

SpecShared == InitShared /\ [][NextShared]_vars

\* C30: the list the caller handed to the constructors holds its two
\* corners as the caller wrote them after any sequence of tick calls, and
\* the scenario that was built from the same list and never ticked is as
\* its constructor left it.
C30_CallerListUntouched ==
    caller_points # None
        => /\ caller_points = CallerPoints(scn.kind)
           /\ \A i \in 1..Len(scenarios) :
                 scenarios[i] = init(scn.kind, CallerPoints(scn.kind))

----------------------------------------------------------------------------
(* spawn_unpredicatable_pedestrian-Fix.py: class EmergencyPlane *)

EmergencyPlane_timer == 100

EmergencyPlane_default == << <<-425, 2010>>, <<-435, 2095>> >>

EmergencyPlane_actors == <<"cirrus_body", "cirrus_prop">>

\* __init__ takes no trigger_points.
EmergencyPlane_init(trigger_points) ==
    [NewScenario("EmergencyPlane", EmergencyPlane_default, <<FALSE>>,
                 EmergencyPlane_timer)
        EXCEPT !.actor_list = EmergencyPlane_actors]

EmergencyPlane_trigger(s) == [s EXCEPT !.triggered = TRUE]

\* tick: the height 2.80 of the landing is 28 tenths.
EmergencyPlane_tick(s, e, o) ==
    IF s.triggered
    THEN IF o.plane_z > 28
         THEN Out(s, 0, <<"cirrus_prop.set_transform",
                          "cirrus_body.set_transform">>, <<>>, FALSE,
                  o.actors)
         ELSE IF s.timer > 0
         THEN Out([s EXCEPT !.timer = @ - 1], 0,
                  <<"cirrus_prop.set_transform",
                    "cirrus_body.set_transform">>, <<>>, FALSE, o.actors)
         ELSE Out(s, 1, <<"cirrus_prop.set_transform">>,
                  <<"pass: plane landed">>, FALSE, o.actors)
    ELSE IF is_inside_bounding_box(e.loc, s.trigger_points[1],
                                   s.trigger_points[2])
    THEN Out(EmergencyPlane_trigger(s), 0, <<>>, <<>>, TRUE, o.actors)
    ELSE Out([s EXCEPT !.trigger_area =
                   update_trigger_points(s.trigger_points,
                                         get_vehicle_speed(e), FALSE, TRUE)],
             0, <<>>, <<>>, FALSE, o.actors)

----------------------------------------------------------------------------
(* spawn_unpredictable_bicycle-Fix.py: class UnpredictableBicycle *)

UnpredictableBicycle_timer == 100

UnpredictableBicycle_default == << <<-725, -90>>, <<-762, -95>> >>

UnpredictableBicycle_actors == <<"biker">>

\* self.throttle = 1.0, in tenths.
ThrottleAtStart == 10

UnpredictableBicycle_init(trigger_points) ==
    [NewScenario("UnpredictableBicycle",
                 PointsOr(trigger_points, UnpredictableBicycle_default),
                 <<FALSE>>, UnpredictableBicycle_timer)
        EXCEPT !.actor_list = UnpredictableBicycle_actors]
    @@ [throttle |-> ThrottleAtStart]

UnpredictableBicycle_trigger(s) == [s EXCEPT !.triggered = TRUE]

UnpredictableBicycle_tick(s, e, o) ==
    IF s.triggered
    THEN IF s.checkpoint[1] = FALSE
         THEN LET t == [s EXCEPT !.throttle =
                           IF get_vehicle_speed(e) < o.biker_speed
                           THEN @ - 1 ELSE @ + 1]
              IN IF o.biker_y < -1262
                 THEN Out([t EXCEPT !.checkpoint[1] = TRUE], 0,
                          <<"biker.apply_control", "biker.apply_control">>,
                          <<>>, FALSE, o.actors)
                 ELSE Out(t, 0, <<"biker.apply_control">>, <<>>, FALSE,
                          o.actors)
         ELSE IF o.biker_yaw < 0
         THEN Out(s, 0, <<"biker.apply_control">>, <<>>, FALSE, o.actors)
         ELSE IF s.timer > 0
         THEN Out([s EXCEPT !.timer = @ - 1], 0, <<"biker.apply_control">>,
                  <<>>, FALSE, o.actors)
         ELSE Out(s, 1, <<>>, <<>>, FALSE, o.actors)
    ELSE IF is_inside_bounding_box(e.loc, s.trigger_points[1],
                                   s.trigger_points[2])
    THEN Out(UnpredictableBicycle_trigger(s), 0,
             <<"biker.set_simulate_physics", "biker.apply_control">>, <<>>,
             TRUE, o.actors)
    ELSE Out([s EXCEPT !.trigger_area =
                   update_trigger_points(s.trigger_points,
                                         get_vehicle_speed(e), FALSE, FALSE)],
             0, <<>>, <<>>, FALSE, o.actors)

----------------------------------------------------------------------------
(* spawn_squirrel_running_across.py: class SquirrelRunningAcrossTheRoad *)

SquirrelRunningAcrossTheRoad_timer == 30

SquirrelRunningAcrossTheRoad_default == << <<1031, 1314>>, <<1053, 1350>> >>

SquirrelRunningAcrossTheRoad_actors == <<"squirrel">>

\* self.squirrel_x_position = 122.60
squirrel_x_position == 1226

SquirrelRunningAcrossTheRoad_init(trigger_points) ==
    [NewScenario("SquirrelRunningAcrossTheRoad",
                 PointsOr(trigger_points,
                          SquirrelRunningAcrossTheRoad_default),
                 <<FALSE>>, SquirrelRunningAcrossTheRoad_timer)
        EXCEPT !.actor_list = SquirrelRunningAcrossTheRoad_actors]

SquirrelRunningAcrossTheRoad_trigger(s) == [s EXCEPT !.triggered = TRUE]

\* What a tick call that ends in an exception leaves: the object as the
\* statements before the exception made it, no return value (ret = -1), and
\* the name of the exception where the messages are.
Raised(s, exception, a) == Out(s, -1, <<>>, <<exception>>, FALSE, a)

\* The branch of tick that steers the squirrel towards the car.  The
\* checkpoint is set before the division by time_to_intersect, and the
\* division of a float by 0.0 raises ZeroDivisionError.
SquirrelRunningAcrossTheRoad_intercept(s, e, o) ==
    LET time_to_intersect_is_zero == Abs(o.squirrel[1] - e.loc[1]) = 0
        distance_to_intersect == Abs(o.squirrel[2] - e.loc[2])
        t == IF distance_to_intersect < 8
             THEN [s EXCEPT !.checkpoint[1] = TRUE] ELSE s
    IN IF time_to_intersect_is_zero
       THEN Raised(t, "ZeroDivisionError", o.actors)
       ELSE Out(t, 0, <<"squirrel.set_transform">>, <<>>, FALSE, o.actors)

\* tick.  Locations are in tenths of a metre: a squirrel that has left its x
\* position by more than 0.01 is one whose x is another tenth.  The squirrel
\* crosses at 1.5 m/s, 75 mm in a step, and has crossed below 127.40 m.
SquirrelRunningAcrossTheRoad_tick(s, e, o) ==
    IF s.triggered
    THEN IF s.collision_detected = FALSE
         THEN IF Abs(o.squirrel[1] - squirrel_x_position) > 0
              THEN Out([s EXCEPT !.collision_detected = TRUE], 0,
                       <<"squirrel.set_simulate_physics">>,
                       <<"collided with the squirrel">>, FALSE, o.actors)
              ELSE IF s.checkpoint[1] = FALSE
              THEN IF o.ego_velocity_x > 0
                   THEN SquirrelRunningAcrossTheRoad_intercept(s, e, o)
                   ELSE Out(s, 0, <<>>, <<>>, FALSE, o.actors)
              ELSE IF 100 * o.squirrel[2] - 75 < 127400
              THEN Out(s, 1, <<"squirrel.set_transform">>,
                       <<"pass: squirrel crossed">>, FALSE, o.actors)
              ELSE Out(s, 0, <<"squirrel.set_transform">>, <<>>, FALSE,
                       o.actors)
         ELSE IF s.timer > 0
         THEN Out([s EXCEPT !.timer = @ - 1], 0, <<>>, <<>>, FALSE, o.actors)
         ELSE Out(s, 1, <<>>, <<>>, FALSE, o.actors)
    ELSE IF is_inside_bounding_box(e.loc, s.trigger_area[1],
                                   s.trigger_area[2])
    THEN Out(SquirrelRunningAcrossTheRoad_trigger(s), 0, <<>>, <<>>, TRUE,
             o.actors)
    ELSE Out([s EXCEPT !.trigger_area =
                   update_trigger_points(s.trigger_points,
                                         get_vehicle_speed(e), FALSE, TRUE)],
             0, <<>>, <<>>, FALSE, o.actors)

----------------------------------------------------------------------------
(* The three classes above, each run on its own by free tick calls. *)

MoreKinds == {"EmergencyPlane", "UnpredictableBicycle",
              "SquirrelRunningAcrossTheRoad"}

init_more(kind, trigger_points) ==
    CASE kind = "EmergencyPlane" -> EmergencyPlane_init(trigger_points)
      [] kind = "UnpredictableBicycle" ->
            UnpredictableBicycle_init(trigger_points)
      [] kind = "SquirrelRunningAcrossTheRoad" ->
            SquirrelRunningAcrossTheRoad_init(trigger_points)

tick_more(s, e, o) ==
    CASE s.kind = "EmergencyPlane" -> EmergencyPlane_tick(s, e, o)
      [] s.kind = "UnpredictableBicycle" -> UnpredictableBicycle_tick(s, e, o)
      [] s.kind = "SquirrelRunningAcrossTheRoad" ->
            SquirrelRunningAcrossTheRoad_tick(s, e, o)

\* Throttle steps of the bicycle away from the throttle at start.
MaxThrottleSteps == 2

\* What a tick reads from the simulator besides the ego vehicle.
ReadingMore(a) ==
    [actors |-> a, plane_z |-> 20, biker_y |-> -1200, biker_yaw |-> -90,
     biker_speed |-> 10, squirrel |-> <<squirrel_x_position, 1384>>,
     ego_velocity_x |-> 20]

\* The ego vehicle in the middle of the rectangle, moved by d along an axis.
Middle(points, d, along_x) ==
    LET c == Centre(points)
    IN IF along_x THEN <<c[1] + d, c[2]>> ELSE <<c[1], c[2] + d>>

WorldsMore(s, a) ==
    CASE s.kind = "EmergencyPlane" ->
            { <<At(Middle(s.trigger_points, 0, TRUE), 20), ReadingMore(a)>>,
              <<At(Middle(s.trigger_points, -20, TRUE), 20), ReadingMore(a)>>,
              <<At(FarAway, 20), ReadingMore(a)>>,
              <<At(FarAway, 20), [ReadingMore(a) EXCEPT !.plane_z = 50]>> }
      [] s.kind = "UnpredictableBicycle" ->
            { <<At(Middle(s.trigger_points, 0, FALSE), 20), ReadingMore(a)>>,
              <<At(Middle(s.trigger_points, -20, FALSE), 20), ReadingMore(a)>>,
              <<At(FarAway, 20), ReadingMore(a)>>,
              <<At(FarAway, 0), [ReadingMore(a) EXCEPT !.biker_y = -1270]>>,
              <<At(FarAway, 20), [ReadingMore(a) EXCEPT !.biker_yaw = 10]>> }
      [] s.kind = "SquirrelRunningAcrossTheRoad" ->
            { <<At(Middle(s.trigger_points, 0, TRUE), 20), ReadingMore(a)>>,
              <<At(FarAway, 20), ReadingMore(a)>>,
              <<At(<<1100, 1330>>, 20), ReadingMore(a)>>,
              <<At(<<1100, 1330>>, 0),
                [ReadingMore(a) EXCEPT !.ego_velocity_x = 0]>>,
              <<At(<<1220, 1380>>, 20), ReadingMore(a)>>,
              <<At(<<squirrel_x_position, 1330>>, 20), ReadingMore(a)>>,
              <<At(<<1240, 1330>>, 20),
                [ReadingMore(a) EXCEPT
                    !.squirrel = <<squirrel_x_position, 1270>>]>>,
              <<At(<<1230, 1330>>, 20),
                [ReadingMore(a) EXCEPT
                    !.squirrel = <<squirrel_x_position + 2, 1380>>]>> }

InitMore ==
    /\ \E k \in MoreKinds : scn = init_more(k, None)
    /\ ego = EgoAtStart
    /\ actors = Spawned(ActorsAtStart, scn.actor_list)
    /\ ret = -1
    /\ ctl = <<>>
    /\ msg = <<>>
    /\ trig_calls = 0
    /\ op = "init"
    /\ pc = "tick"
    /\ route = "free"
    /\ driver = "none"
    /\ scenarios = <<>>
    /\ scenario_timers = <<>>
    /\ index = 0
    /\ stalls = 0
    /\ ones = [k \in Kinds |-> 0]
    /\ elapsed = 0
    /\ batches = <<>>
    /\ hist = HistAtStart
    /\ call = NoCall
    /\ caller_points = None

\* One call scenario.tick(ego_vehicle).  No driver calls tick again after a
\* call that returned 1 or raised.
TickMore ==
    /\ ret \in {-1, 0}
    /\ msg # <<"ZeroDivisionError">>
    /\ \E w \in WorldsMore(scn, actors) :
          LET r == tick_more(scn, w[1], w[2]) IN
          /\ scn.kind = "UnpredictableBicycle" =>
                Abs(r.s.throttle - ThrottleAtStart) <= MaxThrottleSteps
          /\ scn' = r.s
          /\ ego' = w[1]
          /\ actors' = r.actors
          /\ ret' = r.ret
          /\ ctl' = r.ctl
          /\ msg' = r.msg
          /\ trig_calls' = IF r.trig THEN trig_calls + 1 ELSE trig_calls
    /\ op' = "tick"
    /\ UNCHANGED <<pc, route, dvars>>

NextMore == TickMore

SpecMore == InitMore /\ [][NextMore]_vars

\* C31: a tick call on a scenario that is not triggered triggers it exactly
\* when the ego vehicle is inside the trigger_area the scenario has at the
\* call, the rectangle the latest idle tick produced.
C31_IdleTickTestsCurrentArea ==
    [][(op' = "tick" /\ ~scn.triggered)
          => (scn'.triggered <=> InsideArea(ego', scn))]_vars

\* The checkpoints that are FALSE in c and TRUE in d.
Flipped(c, d) == { i \in DOMAIN c : ~c[i] /\ d[i] }

\* From c to d at most one checkpoint has gone from FALSE to TRUE, and every
\* checkpoint before it was TRUE already.
InOrder(c, d) ==
    \A i \in Flipped(c, d) :
        Flipped(c, d) = {i} /\ \A j \in 1..(i - 1) : c[j]

\* The tick of s finds in reading o what it takes for a hit: a shopping cart
\* that has tipped over, a gorilla or a gazelle that is off the x the
\* scenario recorded for it.
HitSeen(s, o) ==
    CASE s.kind = "ShoppingcartRollingDown" ->
            o.cart_pitch > 60 \/ o.cart_roll < -60
      [] s.kind = "LooseZooAnimals" ->
            \/ Abs(s.gorilla_x - o.actors.gorilla[1]) > 20
            \/ Abs(s.gazelle_x - o.actors.gazelle[1]) > 20
      [] OTHER -> FALSE

\* C32 as stated: on a triggered tick at most one checkpoint goes from false
\* to true, and it is the lowest-indexed one that was false.
C32_OneCheckpointPerTick ==
    [][(scn.triggered /\ op' = "tick")
          => InOrder(scn.checkpoint, scn'.checkpoint)]_vars

\* C32 amended: whatever a triggered tick reads, if it does not find a hit
\* then at most one checkpoint goes from false to true and it is the
\* lowest-indexed one that was false; no checkpoint goes back to false.
C32_OneCheckpointUnlessHit ==
    scn.triggered
        => \A w \in Worlds(scn, actors) :
              LET r == tick(scn, w[1], w[2])
              IN /\ ~HitSeen(scn, w[2])
                       => InOrder(scn.checkpoint, r.s.checkpoint)
                 /\ \A i \in DOMAIN scn.checkpoint :
                       scn.checkpoint[i] => r.s.checkpoint[i]

C32_Witness ==
    /\ scn.kind = "ShoppingcartRollingDown"
    /\ scn.triggered
    /\ op = "tick"
    /\ scn.checkpoint = <<TRUE, FALSE, FALSE>>

StageTimerKinds == {"BusStopNearPlayground", "CarForwardStoppingDropoff",
                    "ParkingHGV"}

StaticEMSObstacle_sensors ==
    { StaticEMSObstacle_actors[i] : i \in 1..5 }

\* C36: a destroy call on a StaticEMSObstacle stops every collision sensor
\* the scenario spawned, one per vehicle and five in all, before it sends the
\* batch that destroys the actors.
C36_DestroyStopsEverySensor ==
    \A i \in DOMAIN batches :
        scn.kind = "StaticEMSObstacle"
            => /\ StaticEMSObstacle_sensors \subseteq Range(batches[i].stops)
               /\ Len(batches[i].stops) = 5

\* C35: a tick call that returns 1 prints exactly one pass/fail message, and
\* a tick call that returns 0 prints none.
C35_OneMessagePerVerdict ==
    op = "tick" => IF ret = 1 THEN Len(msg) = 1 ELSE msg = <<>>

\* The classes whose idle branch calls update_trigger_points.
UpdateTriggerPointsKinds == TranslatingKinds \ BeginningAreaKinds

\* The rectangle the constructor stored.
ConstructionPoints == init(scn.kind, caller_points).trigger_points

C38_EmptyRosterBreaksLoop ==
    [][(driver = "start_car" /\ scenarios = <<>>) => pc' = "done"]_vars

----------------------------------------------------------------------------
(* The loops under KeyboardInterrupt: except KeyboardInterrupt / finally *)

RECURSIVE AfterDestroyAll(_, _)
AfterDestroyAll(h, list) ==
    IF list = <<>> THEN h
    ELSE AfterDestroyAll(AfterDestroy(h, Head(list).kind), Tail(list))

\* The finally block of main(): start_car.py runs
\* "for scenario in scenarios: scenario.destroy(client)", a scenario file
\* "if Scenario is not None: Scenario.destroy(client)"; then main() returns.
\* b, a and h are the batches, the actors and the history the block finds.
FinallyBlock(list, b, a, h) ==
    /\ batches' = b \o [i \in 1..Len(list) |-> destroy(list[i])]
    /\ actors' = [a EXCEPT !.alive =
                     @ \ UNION { Range(list[i].actor_list) : i \in 1..Len(list) }]
    /\ hist' = AfterDestroyAll(h, list)
    /\ pc' = "exit"

\* KeyboardInterrupt raised between two statements of the loop body, caught
\* by "except KeyboardInterrupt: pass" and followed by the finally block.
KeyboardInterrupt ==
    /\ pc \in {"for", "loop"}
    /\ FinallyBlock(scenarios, batches, actors, hist)
    /\ op' = "interrupt"
    /\ UNCHANGED <<scn, ego, ret, ctl, msg, trig_calls, route, driver,
                   scenarios, scenario_timers, index, stalls, ones, elapsed,
                   call, caller_points>>

\* KeyboardInterrupt raised in the else branch of the watchdog test, after
\* scenario.destroy(client) has returned and before scenarios.pop(index)
\* (start_car.py) or Scenario = None (a scenario file) has run.
InterruptedDestroy ==
    /\ pc \in {"for", "loop"}
    /\ index <= Len(scenarios)
    /\ ~(scenario_timers[index] > 0)
    /\ LET d == destroy(scenarios[index]) IN
         FinallyBlock(scenarios, Append(batches, d),
                      [actors EXCEPT !.alive = @ \ Range(d.batch)],
                      AfterDestroy(hist, scenarios[index].kind))
    /\ op' = "interrupt"
    /\ UNCHANGED <<scn, ego, ret, ctl, msg, trig_calls, route, driver,
                   scenarios, scenario_timers, index, stalls, ones, elapsed,
                   call, caller_points>>

\* main() of a scenario file after the break of its loop: the finally block.
LoopLeft ==
    /\ pc = "done"
    /\ FinallyBlock(scenarios, batches, actors, hist)
    /\ op' = "exit"
    /\ UNCHANGED <<scn, ego, ret, ctl, msg, trig_calls, route, driver,
                   scenarios, scenario_timers, index, stalls, ones, elapsed,
                   call, caller_points>>

\* The ego vehicle stands still, inside or outside the trigger area.
InitInterrupt == InitDriver /\ route # "live"

NextInterrupt ==
    \/ StartCarFor
    \/ StartCarWorldTick
    \/ MainLoop
    \/ KeyboardInterrupt
    \/ InterruptedDestroy
    \/ LoopLeft

SpecInterrupt == InitInterrupt /\ [][NextInterrupt]_vars

\* The scenarios main() has constructed by the time it returns.
Built ==
    IF driver = "start_car" THEN Range(Roster)
    ELSE IF scenarios # <<>> \/ hist[driver].destroys > 0 THEN {driver}
    ELSE {}

\* C39: when main() returns, by the break of its loop or after a
\* KeyboardInterrupt raised anywhere in the loop, destroy has been called
\* exactly once on every scenario it constructed.
C39_DestroyedOnceAtExit ==
    pc = "exit" => \A k \in Built : hist[k].destroys = 1

\* C40: every tick call on a SquirrelRunningAcrossTheRoad completes and
\* returns 0 or 1; none ends in a division by zero, whatever the x
\* coordinates of the ego vehicle and of the squirrel.
C40_TickNeverDividesByZero ==
    (op = "tick" /\ scn.kind = "SquirrelRunningAcrossTheRoad")
        => /\ ret \in {0, 1}
           /\ msg # <<"ZeroDivisionError">>

====
